---- MODULE Spec2Model ----
(***************************************************************************)
(* A model of torchquantum's functional statevector simulator              *)
(* (torchquantum/functional/functionals.py): the gate matrix library, the  *)
(* two contraction engines apply_unitary_einsum / apply_unitary_bmm, the   *)
(* dispatcher gate_wrapper and the non-unitary reset.                      *)
(*                                                                         *)
(* Amplitudes are exact: a complex number is an element of the ring        *)
(* Z[w][1/2], w = exp(i*pi/4), written <<a, b, c, d, k>> for               *)
(* (a + b*w + c*w^2 + d*w^3) / 2^k in lowest terms.  The ring holds i,     *)
(* 1/sqrt(2) and the sines and cosines of every multiple of pi/4, so every *)
(* modelled gate matrix is represented without rounding.  Angles are       *)
(* integers counting units of pi/2.                                        *)
(*                                                                         *)
(* A tensor is a record [shape, data]: data lists the elements in logical  *)
(* row-major order.  Python's 0-based positions are kept: At(s, i) is      *)
(* s[i] of the source.                                                     *)
(***************************************************************************)
EXTENDS Integers, Sequences, FiniteSets, TLC

VARIABLES q_device, parent_graph, q_device2, parent_graph2, hist

vars == <<q_device, parent_graph, q_device2, parent_graph2, hist>>

(***************************************************************************)
(* Bounds of the model.                                                    *)
(***************************************************************************)
\* number of wires of the simulated device
NWires == 3
\* batch size of the device state
Bsz == 2
\* number of calls made on one device
MaxOps == 2
\* number of direct applications of a contraction to one state
MaxApply == 1

\* the widest device whose index strings are built
MaxIndexWires == 27

(***************************************************************************)
(* Sequences with Python's 0-based positions.                              *)
(***************************************************************************)
At(s, i) == s[i + 1]

Range0(n) == [i \in 1..n |-> i - 1]

\* s[lo:hi], clipped like a Python slice
Slice(s, lo, hi) ==
  LET h == IF hi > Len(s) THEN Len(s) ELSE hi
  IN  IF lo >= h THEN <<>> ELSE [i \in 1..(h - lo) |-> s[lo + i]]

\* del s[i]
DelAt(s, i) == [j \in 1..(Len(s) - 1) |-> IF j <= i THEN s[j] ELSE s[j + 1]]

Pow2(n) == 2 ^ n

RECURSIVE Prod(_)
Prod(s) == IF s = <<>> THEN 1 ELSE Head(s) * Prod(Tail(s))

SeqToSet(s) == {s[i] : i \in DOMAIN s}

\* position (0-based) of x in s
IndexOf(s, x) == (CHOOSE i \in DOMAIN s : s[i] = x) - 1

(***************************************************************************)
(* Complex arithmetic (C_DTYPE) in Z[w][1/2].                              *)
(***************************************************************************)
AllEven(z) == z[1] % 2 = 0 /\ z[2] % 2 = 0 /\ z[3] % 2 = 0 /\ z[4] % 2 = 0

RECURSIVE Reduce(_)
Reduce(z) ==
  IF z[5] > 0 /\ AllEven(z)
  THEN Reduce(<<z[1] \div 2, z[2] \div 2, z[3] \div 2, z[4] \div 2, z[5] - 1>>)
  ELSE z

Cx(a, b, c, d, k) == Reduce(<<a, b, c, d, k>>)

Zero == <<0, 0, 0, 0, 0>>
One == <<1, 0, 0, 0, 0>>
ImagI == <<0, 0, 1, 0, 0>>
CInt(n) == <<n, 0, 0, 0, 0>>

Scale(z, k) ==
  LET m == Pow2(k - z[5]) IN <<z[1] * m, z[2] * m, z[3] * m, z[4] * m, k>>

CAdd(x, y) ==
  IF x = Zero THEN y
  ELSE IF y = Zero THEN x
  ELSE LET k == IF x[5] > y[5] THEN x[5] ELSE y[5]
           p == Scale(x, k)
           q == Scale(y, k)
       IN  Reduce(<<p[1] + q[1], p[2] + q[2], p[3] + q[3], p[4] + q[4], k>>)

CMul(x, y) ==
  IF x = Zero \/ y = Zero THEN Zero
  ELSE IF x = One THEN y
  ELSE IF y = One THEN x
  ELSE Reduce(<<x[1]*y[1] - x[2]*y[4] - x[3]*y[3] - x[4]*y[2],
                x[1]*y[2] + x[2]*y[1] - x[3]*y[4] - x[4]*y[3],
                x[1]*y[3] + x[2]*y[2] + x[3]*y[1] - x[4]*y[4],
                x[1]*y[4] + x[2]*y[3] + x[3]*y[2] + x[4]*y[1],
                x[5] + y[5]>>)

CNeg(x) == <<-x[1], -x[2], -x[3], -x[4], x[5]>>

\* complex conjugate: conj(w) = -w^3, conj(w^2) = -w^2, conj(w^3) = -w
CConj(x) == <<x[1], -x[4], -x[3], -x[2], x[5]>>

\* |x|^2
CAbs2(x) == CMul(x, CConj(x))

\* w^t for any integer t
Omega(t) ==
  LET r == t % 8
      u == r % 4
      sg == IF r >= 4 THEN -1 ELSE 1
  IN  <<IF u = 0 THEN sg ELSE 0, IF u = 1 THEN sg ELSE 0,
        IF u = 2 THEN sg ELSE 0, IF u = 3 THEN sg ELSE 0, 0>>

Half(z) == Reduce(<<z[1], z[2], z[3], z[4], z[5] + 1>>)

\* 1/sqrt(2) = (w - w^3)/2
INV_SQRT2 == <<0, 1, 0, -1, 1>>

RECURSIVE CPow(_, _)
CPow(z, n) == IF n = 0 THEN One ELSE CMul(z, CPow(z, n - 1))

\* torch.exp(1j * q * pi/4)
ExpI(q) == Omega(q)
\* torch.cos(q * pi/4) and torch.sin(q * pi/4)
Cos(q) == Half(CAdd(Omega(q), Omega(-q)))
Sin(q) == Half(CMul(CNeg(ImagI), CAdd(Omega(q), CNeg(Omega(-q)))))

RECURSIVE CSum(_)
CSum(s) == IF s = <<>> THEN Zero ELSE CAdd(Head(s), CSum(Tail(s)))

(***************************************************************************)
(* Tensors.                                                                *)
(***************************************************************************)
\* shape and data are held as evaluated tuples
Tensor(shape, data) == [shape |-> shape \o <<>>, data |-> data \o <<>>]

Dim(t) == Len(t.shape)

\* row-major strides of a shape
Strides(shape) ==
  [j \in 1..Len(shape) |-> Prod(Slice(shape, j, Len(shape)))] \o <<>>

\* entry j (1-based) of the multi-index of flat position i (0-based)
Digit(i, strides, shape, j) == (i \div strides[j]) % shape[j]

\* the multi-index (0-based entries) of flat row-major position i (0-based)
Unravel(i, shape) ==
  LET st == Strides(shape)
  IN  [j \in 1..Len(shape) |-> Digit(i, st, shape, j)] \o <<>>

RECURSIVE Dot(_, _, _)
Dot(x, y, j) == IF j > Len(x) THEN 0 ELSE x[j] * y[j] + Dot(x, y, j + 1)

\* the flat position (0-based) of a multi-index
Ravel(idx, shape) == Dot(idx, Strides(shape), 1)

\* t[idx]
Elem(t, idx) == t.data[Ravel(idx, t.shape) + 1]

\* flat position in t of flat position i of t.permute(perm), axis by axis
RECURSIVE PermuteSrc(_, _, _, _, _, _)
PermuteSrc(i, ostrides, oshape, tstrides, perm, j) ==
  IF j > Len(perm) THEN 0
  ELSE Digit(i, ostrides, oshape, j) * At(tstrides, perm[j])
         + PermuteSrc(i, ostrides, oshape, tstrides, perm, j + 1)

\* t.permute(perm): axis j of the result is axis perm[j] of t
Permute(t, perm) ==
  LET shp == [j \in 1..Len(perm) |-> At(t.shape, perm[j])] \o <<>>
      os == Strides(shp)
      ts == Strides(t.shape)
  IN  Tensor(shp, [i \in 1..Len(t.data) |->
                     t.data[PermuteSrc(i - 1, os, shp, ts, perm, 1) + 1]])

\* t.reshape(shape) / t.view(shape), one entry of shape may be -1
Reshape(t, shape) ==
  LET known == Prod([j \in 1..Len(shape) |-> IF shape[j] = -1 THEN 1 ELSE shape[j]])
      inferred == Len(t.data) \div known
  IN  Tensor([j \in 1..Len(shape) |-> IF shape[j] = -1 THEN inferred ELSE shape[j]],
             t.data)

\* a variant that returns the identity permutation
ArgsortIdentity(p) == Range0(Len(p))

\* np.argsort of a permutation of 0..n-1
Argsort(p) == [j \in 1..Len(p) |-> IndexOf(p, j - 1)]

\* sum over k of a[b, m, k] * x[b, k, r] on the flat data of a and x
RECURSIVE BmmCell(_, _, _, _, _, _, _)
BmmCell(ad, xd, abase, xbase, R, K, k) ==
  IF k >= K THEN Zero
  ELSE CAdd(CMul(ad[abase + k + 1], xd[xbase + k * R + 1]),
            BmmCell(ad, xd, abase, xbase, R, K, k + 1))

\* a.bmm(x) for a of shape [B, M, K] and x of shape [B, K, R]
Bmm(a, x) ==
  LET B == a.shape[1]
      M == a.shape[2]
      K == a.shape[3]
      R == x.shape[3]
      cell(i) == LET b == i \div (M * R)
                     m == (i \div R) % M
                     r == i % R
                 IN  BmmCell(a.data, x.data, (b * M + m) * K, b * K * R + r, R, K, 0)
  IN  Tensor(<<B, M, R>>, [i \in 1..(B * M * R) |-> cell(i - 1)])

\* mat.expand([bsz] + list(mat.shape))
Expand(mat, bsz) ==
  Tensor(<<bsz>> \o mat.shape,
         [i \in 1..(bsz * Len(mat.data)) |-> mat.data[((i - 1) % Len(mat.data)) + 1]])

\* t.conj()
Conj(t) == Tensor(t.shape, [i \in DOMAIN t.data |-> CConj(t.data[i])])

\* t.squeeze(0)
Squeeze0(t) ==
  IF Dim(t) > 0 /\ t.shape[1] = 1 THEN Tensor(Tail(t.shape), t.data) ELSE t

\* t.unsqueeze(0)
Unsqueeze0(t) == Tensor(<<1>> \o t.shape, t.data)

\* t.unsqueeze(-1)
UnsqueezeLast(t) == Tensor(t.shape \o <<1>>, t.data)


\* a 2-D tensor from its rows
Mat(rows) ==
  LET n == Len(rows)
      m == Len(rows[1])
  IN  Tensor(<<n, m>>, [i \in 1..(n * m) |-> rows[((i - 1) \div m) + 1][((i - 1) % m) + 1]])

\* a 2-D tensor from rows of Python ints
IntMat(rows) ==
  Mat([r \in 1..Len(rows) |-> [c \in 1..Len(rows[r]) |-> CInt(rows[r][c])]])

\* torch.eye(n, dtype=C_DTYPE)
Eye(n) == Tensor(<<n, n>>, [i \in 1..(n * n) |->
                  IF (i - 1) \div n = (i - 1) % n THEN One ELSE Zero])

\* mat with mat[r][c] = v (0-based r, c) on a 2-D tensor
SetItem(mat, r, c, v) ==
  Tensor(mat.shape, [mat.data EXCEPT ![r * mat.shape[2] + c + 1] = v])

\* a builder raised: the marker returned in place of a matrix
MatErr == Tensor(<<-1>>, <<>>)
IsErr(t) == t.shape = <<-1>>

\* an exception of the given type and message in place of a tensor
Raised(what) == Tensor(<<-1>>, <<what>>)

\* how a call that met the error value e ended
ErrOutcome(e) == IF e.data = <<>> THEN "raised" ELSE e.data[1]

\* a stack of n x n blocks, then .squeeze(0): blocks[b + 1] lists the entries
\* of batch row b
Stacked(blocks, n) ==
  Squeeze0(Tensor(<<Len(blocks), n, n>>,
    [i \in 1..(Len(blocks) * n * n) |->
       blocks[((i - 1) \div (n * n)) + 1][((i - 1) % (n * n)) + 1]]))

\* the batch rows 0..B-1 of a parameter tensor, as positions of a sequence
BatchRows(params) == 1..params.shape[1]

\* params[b, j] of a (B, p) parameter tensor
Par(params, b, j) == Elem(params, <<b, j>>)

(***************************************************************************)
(* Gate matrix library.                                                    *)
(***************************************************************************)
rx_matrix(params) ==
  LET co(b) == Cos(Par(params, b, 0))
      jsi(b) == CMul(ImagI, Sin(-Par(params, b, 0)))
      block(b) == <<co(b), jsi(b), jsi(b), co(b)>>
  IN  Stacked([r \in BatchRows(params) |-> block(r - 1)], 2)

ry_matrix(params) ==
  LET co(b) == Cos(Par(params, b, 0))
      si(b) == Sin(Par(params, b, 0))
      block(b) == <<co(b), CNeg(si(b)), si(b), co(b)>>
  IN  Stacked([r \in BatchRows(params) |-> block(r - 1)], 2)

rz_matrix(params) ==
  LET exp(b) == ExpI(-Par(params, b, 0))
      block(b) == <<exp(b), Zero, Zero, CConj(exp(b))>>
  IN  Stacked([r \in BatchRows(params) |-> block(r - 1)], 2)

\* the item assignments matrix[:, r, c] = v take a value of shape (B, 1):
\* torch broadcasts it only for B = 1 and raises otherwise
cu2_matrix(params) ==
  LET B == params.shape[1]
      phi(b) == Par(params, b, 0)
      lam(b) == Par(params, b, 1)
      block(b) == <<One, Zero, Zero, Zero,
                    Zero, One, Zero, Zero,
                    Zero, Zero, One, CNeg(ExpI(2 * lam(b))),
                    Zero, Zero, ExpI(2 * phi(b)), ExpI(2 * (phi(b) + lam(b)))>>
  IN  IF B > 1 THEN MatErr ELSE Stacked([r \in BatchRows(params) |-> block(r - 1)], 4)

\* torch.cat along the last axis of (B, 1) columns with the (1, 1) constants
\* torch.tensor([[0]]), torch.tensor([[1]]): the other axis must agree, B = 1
xxminyy_matrix(params) ==
  LET B == params.shape[1]
      co(b) == Cos(Par(params, b, 0))
      si(b) == Sin(Par(params, b, 0))
      beta(b) == Par(params, b, 1)
      mji(z) == CNeg(CMul(ImagI, z))
      block(b) == <<co(b), Zero, Zero, CMul(mji(si(b)), ExpI(-2 * beta(b))),
                    Zero, One, Zero, Zero,
                    Zero, Zero, One, Zero,
                    CMul(mji(si(b)), ExpI(2 * beta(b))), Zero, Zero, co(b)>>
  IN  IF params.shape[2] < 2 THEN Raised("IndexError")
      ELSE IF B > 1 THEN Raised("RuntimeError")
      ELSE Stacked([r \in BatchRows(params) |-> block(r - 1)], 4)

\* matrix[:, 3, 3] = exp with exp of shape (B, 1): broadcast only for B = 1
cu1_matrix(params) ==
  LET B == params.shape[1]
      block(b) == <<One, Zero, Zero, Zero,
                    Zero, One, Zero, Zero,
                    Zero, Zero, One, Zero,
                    Zero, Zero, Zero, ExpI(2 * Par(params, b, 0))>>
  IN  IF B > 1 \/ params.shape[2] > 1 THEN Raised("RuntimeError")
      ELSE Stacked([r \in BatchRows(params) |-> block(r - 1)], 4)

u3_matrix(params) ==
  LET co(b) == Cos(Par(params, b, 0))
      si(b) == Sin(Par(params, b, 0))
      phi(b) == Par(params, b, 1)
      lam(b) == Par(params, b, 2)
      block(b) == <<co(b), CNeg(CMul(si(b), ExpI(2 * lam(b)))),
                    CMul(si(b), ExpI(2 * phi(b))),
                    CMul(co(b), ExpI(2 * (phi(b) + lam(b))))>>
  IN  IF params.shape[2] < 3 THEN Raised("IndexError")
      ELSE Stacked([r \in BatchRows(params) |-> block(r - 1)], 2)

\* U U^dagger = I for a matrix or for every matrix of a batch
IsUnitary(matrix) ==
  LET U == IF Dim(matrix) > 2 THEN matrix ELSE Unsqueeze0(matrix)
      n == U.shape[3]
      product == Bmm(U, Permute(Conj(U), <<0, 2, 1>>))
  IN  \A q \in DOMAIN product.data :
         product.data[q] = IF ((q - 1) \div n) % n = (q - 1) % n THEN One ELSE Zero

\* logger is not defined in the module (its import is commented out), so
\* each except block ends in a NameError before it re-raises
LoggerNameError == "NameError: name 'logger' is not defined"

qubitunitary_matrix(params) ==
  LET matrix == Squeeze0(params)
  IN  IF matrix.shape[Len(matrix.shape)] # matrix.shape[Len(matrix.shape) - 1]
      THEN Raised(LoggerNameError)
      ELSE IF ~IsUnitary(matrix) THEN Raised(LoggerNameError)
      ELSE matrix

\* a variant that validates like qubitunitary
qubitunitaryfast_matrix_checked(params) == qubitunitary_matrix(params)

qubitunitaryfast_matrix(params) == Squeeze0(params)

\* params.squeeze(0) is not in place and its result is dropped: mat keeps
\* the leading axis of params, and torch.svd and U.matmul(V) keep it too.
\* The entries are those of U.matmul(V) for the decomposition M = M I I^H
\* of a unitary operand M (U = M, V = I).
qubitunitarystrict_matrix(params) == Tensor(params.shape, params.data)

\* a variant that swaps the first two basis states
multicnot_matrix_low(n_wires) ==
  LET N == Pow2(n_wires)
      m0 == Eye(N)
      m1 == SetItem(m0, 0, 0, Zero)
      m2 == SetItem(m1, 1, 1, Zero)
      m3 == SetItem(m2, 0, 1, One)
  IN  SetItem(m3, 1, 0, One)

multicnot_matrix(n_wires) ==
  LET N == Pow2(n_wires)
      m0 == Eye(N)
      m1 == SetItem(m0, N - 1, N - 1, Zero)
      m2 == SetItem(m1, N - 2, N - 2, Zero)
      m3 == SetItem(m2, N - 1, N - 2, One)
  IN  SetItem(m3, N - 2, N - 1, One)

\* torch.tensor([[exp]]) of exp = torch.exp(1j * phase): a 1 x 1 matrix; a
\* phase tensor of more than one element cannot be one entry of it
globalphase_matrix(params) ==
  IF Len(params.data) # 1 THEN Raised("ValueError")
  ELSE Tensor(<<1, 1>>, <<ExpI(2 * params.data[1])>>)

\* torch.eye(2**n_wires) with its first two basis states swapped
multixcnot_matrix(n_wires) ==
  LET N == Pow2(n_wires)
      m0 == Eye(N)
      m1 == SetItem(m0, 0, 0, Zero)
      m2 == SetItem(m1, 1, 1, Zero)
      m3 == SetItem(m2, 0, 1, One)
  IN  SetItem(m3, 1, 0, One)

\* mat[m, n] = omega^(m n) / sqrt(dimension), omega = exp(2 pi i / dimension);
\* for dimension 2, 4 and 8 omega^p is e^(i pi/4) to the power (8 / dimension) p
qft_matrix(n_wires) ==
  LET dimension == Pow2(n_wires)
      omega(p) == Omega((8 \div dimension) * p)
      norm == CPow(INV_SQRT2, n_wires)
  IN  Tensor(<<dimension, dimension>>,
        [i \in 1..(dimension * dimension) |->
           CMul(omega(((i - 1) \div dimension) * ((i - 1) % dimension)), norm)])

\* a variant with the roles of its operands exchanged
kron_swapped(a, b) ==
  LET r == b.shape[2]
      c == b.shape[3]
      P == a.shape[2] * r
      Q == a.shape[3] * c
      cell(i) == LET n == i \div (P * Q)
                     row == (i \div Q) % P
                     col == i % Q
                 IN  CMul(Elem(b, <<n, row \div r, col \div c>>),
                          Elem(a, <<n, row % r, col % c>>))
  IN  Tensor(<<a.shape[1], P, Q>>, [i \in 1..(a.shape[1] * P * Q) |-> cell(i - 1)])

\* kron(a, b) of batched matrices: a.unsqueeze(-1).unsqueeze(-3) *
\* b.unsqueeze(-2).unsqueeze(-4) is res[n, i, k, j, l] = a[n, i, j] * b[n, k, l],
\* reshaped to rows (i, k) and columns (j, l)
kron(a, b) ==
  LET r == b.shape[2]
      c == b.shape[3]
      P == a.shape[2] * r
      Q == a.shape[3] * c
      cell(i) == LET n == i \div (P * Q)
                     row == (i \div Q) % P
                     col == i % Q
                 IN  CMul(Elem(a, <<n, row \div r, col \div c>>),
                          Elem(b, <<n, row % r, col % c>>))
  IN  Tensor(<<a.shape[1], P, Q>>, [i \in 1..(a.shape[1] * P * Q) |-> cell(i - 1)])

\* torch.stack of one n x n block per batch row, not squeezed
StackRows(blocks, n) ==
  Tensor(<<Len(blocks), n, n>>,
    [i \in 1..(Len(blocks) * n * n) |->
       blocks[((i - 1) \div (n * n)) + 1][((i - 1) % (n * n)) + 1]])

\* the factors of su4_matrix for batch row b: the Rz of the angle at
\* column j, the Rx of the angle at column j, and the SU(2) gate of the
\* angles at columns j, j + 1, j + 2
su4_rz(params, b, j) ==
  <<ExpI(-Par(params, b, j)), Zero, Zero, ExpI(Par(params, b, j))>>

su4_rx(params, b, j) ==
  <<Cos(Par(params, b, j)), CMul(CNeg(ImagI), Sin(Par(params, b, j))),
    CMul(CNeg(ImagI), Sin(Par(params, b, j))), Cos(Par(params, b, j))>>

su4_su2(params, b, j) ==
  <<Cos(Par(params, b, j)),
    CMul(CNeg(ExpI(2 * Par(params, b, j + 2))), Sin(Par(params, b, j))),
    CMul(ExpI(2 * Par(params, b, j + 1)), Sin(Par(params, b, j))),
    CMul(ExpI(2 * (Par(params, b, j + 1) + Par(params, b, j + 2))),
         Cos(Par(params, b, j)))>>

\* the product of the seven factors, built from the right: cnot .
\* kron(iden, rz1) first, kron(a_su2, b_su2) last
su4_product(cnot, iden, rz1, rx1, rz2, a_su2, b_su2, c_su2, d_su2) ==
  Bmm(kron(a_su2, b_su2),
      Bmm(cnot,
          Bmm(kron(rx1, rz2),
              Bmm(cnot,
                  Bmm(kron(c_su2, d_su2),
                      Bmm(cnot, kron(iden, rz1)))))))

su4_matrix(params) ==
  IF params.shape[2] < 15 THEN Raised("IndexError")
  ELSE Squeeze0(su4_product(
         Expand(IntMat(<<<<1, 0, 0, 0>>, <<0, 1, 0, 0>>, <<0, 0, 0, 1>>, <<0, 0, 1, 0>>>>),
                params.shape[1]),
         Expand(Eye(2), params.shape[1]),
         StackRows([r \in BatchRows(params) |-> su4_rz(params, r - 1, 0)], 2),
         StackRows([r \in BatchRows(params) |-> su4_rx(params, r - 1, 1)], 2),
         StackRows([r \in BatchRows(params) |-> su4_rz(params, r - 1, 2)], 2),
         StackRows([r \in BatchRows(params) |-> su4_su2(params, r - 1, 3)], 2),
         StackRows([r \in BatchRows(params) |-> su4_su2(params, r - 1, 6)], 2),
         StackRows([r \in BatchRows(params) |-> su4_su2(params, r - 1, 9)], 2),
         StackRows([r \in BatchRows(params) |-> su4_su2(params, r - 1, 12)], 2)))

\* a variant that swaps the first two basis states
c3x_matrix_open == multixcnot_matrix(4)

\* torch.eye(16) with rows 14 and 15 exchanged
c3x_matrix ==
  LET m0 == Eye(16)
      m1 == SetItem(m0, 15, 15, Zero)
      m2 == SetItem(m1, 14, 14, Zero)
      m3 == SetItem(m2, 15, 14, One)
  IN  SetItem(m3, 14, 15, One)

\* torch.eye(32) with rows 30 and 31 exchanged
c4x_matrix ==
  LET m0 == Eye(32)
      m1 == SetItem(m0, 30, 30, Zero)
      m2 == SetItem(m1, 30, 31, One)
      m3 == SetItem(m2, 31, 31, Zero)
  IN  SetItem(m3, 31, 30, One)

HalfPlus == Half(CAdd(One, ImagI))
HalfMinus == Half(CAdd(One, CNeg(ImagI)))

FixedNames == {"hadamard", "paulix", "pauliy", "pauliz", "s", "t", "sx",
               "cnot", "cz", "cy", "swap", "toffoli", "c3x", "c4x"}

CallableNames ==
  {"rx", "ry", "rz", "xxminyy", "cu1", "cu2", "u3", "qubitunitary",
   "qubitunitaryfast", "qubitunitarystrict", "multicnot", "multixcnot", "qft",
   "globalphase", "su4"}

\* mat_dict[name] for the names whose entry is a tensor
mat_dict(name) ==
  CASE name = "hadamard" ->
         Mat(<<<<INV_SQRT2, INV_SQRT2>>, <<INV_SQRT2, CNeg(INV_SQRT2)>>>>)
    [] name = "paulix" -> IntMat(<<<<0, 1>>, <<1, 0>>>>)
    [] name = "pauliy" -> Mat(<<<<Zero, CNeg(ImagI)>>, <<ImagI, Zero>>>>)
    [] name = "pauliz" -> IntMat(<<<<1, 0>>, <<0, -1>>>>)
    [] name = "s" -> Mat(<<<<One, Zero>>, <<Zero, ImagI>>>>)
    [] name = "t" -> Mat(<<<<One, Zero>>, <<Zero, ExpI(1)>>>>)
    [] name = "sx" -> Mat(<<<<HalfPlus, HalfMinus>>, <<HalfMinus, HalfPlus>>>>)
    [] name = "cnot" ->
         IntMat(<<<<1, 0, 0, 0>>, <<0, 1, 0, 0>>, <<0, 0, 0, 1>>, <<0, 0, 1, 0>>>>)
    [] name = "cz" ->
         IntMat(<<<<1, 0, 0, 0>>, <<0, 1, 0, 0>>, <<0, 0, 1, 0>>, <<0, 0, 0, -1>>>>)
    [] name = "cy" ->
         Mat(<<<<One, Zero, Zero, Zero>>, <<Zero, One, Zero, Zero>>,
               <<Zero, Zero, Zero, CNeg(ImagI)>>, <<Zero, Zero, ImagI, Zero>>>>)
    [] name = "swap" ->
         IntMat(<<<<1, 0, 0, 0>>, <<0, 0, 1, 0>>, <<0, 1, 0, 0>>, <<0, 0, 0, 1>>>>)
    [] name = "toffoli" ->
         IntMat(<<<<1, 0, 0, 0, 0, 0, 0, 0>>, <<0, 1, 0, 0, 0, 0, 0, 0>>,
                  <<0, 0, 1, 0, 0, 0, 0, 0>>, <<0, 0, 0, 1, 0, 0, 0, 0>>,
                  <<0, 0, 0, 0, 1, 0, 0, 0>>, <<0, 0, 0, 0, 0, 1, 0, 0>>,
                  <<0, 0, 0, 0, 0, 0, 0, 1>>, <<0, 0, 0, 0, 0, 0, 1, 0>>>>)
    [] name = "c3x" -> c3x_matrix
    [] name = "c4x" -> c4x_matrix

(***************************************************************************)
(* State-contraction engine.                                               *)
(***************************************************************************)
\* ABC = string.ascii_lowercase, a letter written as its position 0..25
ABC == Range0(26)

\* old_string.replace(a, b)
StrReplace(str, a, b) == [i \in DOMAIN str |-> IF str[i] = a THEN b ELSE str[i]]

\* functools.reduce of the replacements over zip(affected, new)
RECURSIVE ReplaceAll(_, _, _)
ReplaceAll(str, affected, new) ==
  IF affected = <<>> \/ new = <<>> THEN str
  ELSE ReplaceAll(StrReplace(str, Head(affected), Head(new)), Tail(affected), Tail(new))

\* position (1-based) of x in str, 0 when absent
PosIn(str, x) == IF \E i \in DOMAIN str : str[i] = x THEN IndexOf(str, x) + 1 ELSE 0

\* flat position in an operand of the element selected by output position o
\* and summed position s; mo[j] / ms[j] place letter j of the operand in the
\* output / summed index string
RECURSIVE EinsumSrc(_, _, _, _, _, _, _, _, _, _)
EinsumSrc(o, s, mo, ms, ostr, oshp, sstr, sshp, tstr, j) ==
  IF j > Len(mo) THEN 0
  ELSE (IF mo[j] > 0 THEN Digit(o, ostr, oshp, mo[j]) ELSE Digit(s, sstr, sshp, ms[j]))
         * tstr[j]
       + EinsumSrc(o, s, mo, ms, ostr, oshp, sstr, sshp, tstr, j + 1)

\* torch.einsum("<ia>,<ib>-><io>", a, b) on index strings ia, ib, io
Einsum(ia, ib, io, a, b) ==
  LET size(l) == IF PosIn(ia, l) > 0 THEN a.shape[PosIn(ia, l)]
                 ELSE b.shape[PosIn(ib, l)]
      shp == [j \in 1..Len(io) |-> size(io[j])] \o <<>>
      summedSet == (SeqToSet(ia) \cup SeqToSet(ib)) \ SeqToSet(io)
      summed == [j \in 1..Cardinality(summedSet) |->
                   CHOOSE l \in summedSet :
                     Cardinality({m \in summedSet : m < l}) = j - 1] \o <<>>
      sshp == [j \in 1..Len(summed) |-> size(summed[j])] \o <<>>
      ostr == Strides(shp)
      sstr == Strides(sshp)
      astr == Strides(a.shape)
      bstr == Strides(b.shape)
      aO == [j \in 1..Len(ia) |-> PosIn(io, ia[j])] \o <<>>
      aS == [j \in 1..Len(ia) |-> PosIn(summed, ia[j])] \o <<>>
      bO == [j \in 1..Len(ib) |-> PosIn(io, ib[j])] \o <<>>
      bS == [j \in 1..Len(ib) |-> PosIn(summed, ib[j])] \o <<>>
      nS == Prod(sshp)
      term(o, sm) ==
        CMul(a.data[EinsumSrc(o, sm, aO, aS, ostr, shp, sstr, sshp, astr, 1) + 1],
             b.data[EinsumSrc(o, sm, bO, bS, ostr, shp, sstr, sshp, bstr, 1) + 1])
      cell(o) == CSum([sm \in 1..nS |-> term(o, sm - 1)])
  IN  Tensor(shp, [i \in 1..Prod(shp) |-> cell(i - 1)])

\* the index strings of the einsum expression: the matrix's, the state's and
\* the output's, the batch letter ABC[-1] in front
einsum_indices(total_wires, device_wires, is_batch_unitary) ==
  LET state_indices == Slice(ABC, 0, total_wires)
      affected_indices == [j \in 1..Len(device_wires) |-> At(ABC, device_wires[j])]
      new_indices == Slice(ABC, total_wires, total_wires + Len(device_wires))
      new_state_indices == ReplaceAll(state_indices, affected_indices, new_indices)
      batch == <<At(ABC, Len(ABC) - 1)>>
  IN  [mat |-> (IF is_batch_unitary THEN batch ELSE <<>>)
                 \o new_indices \o affected_indices,
       state |-> batch \o state_indices,
       out |-> batch \o new_state_indices]

apply_unitary_einsum(state, mat, wires) ==
  LET device_wires == wires
      total_wires == Len(state.shape) - 1
      is_batch_unitary == Len(mat.shape) > 2
      shape_extension == IF is_batch_unitary THEN <<mat.shape[1]>> ELSE <<>>
      matv == Reshape(mat, shape_extension \o [j \in 1..(2 * Len(device_wires)) |-> 2])
      indices == einsum_indices(total_wires, device_wires, is_batch_unitary)
  IN  Einsum(indices.mat, indices.state, indices.out, matv, state)

\* a variant that only counts the subscripts of each operand
einsum_accepts_repeats(indices, mat_shape, state_shape) ==
  /\ Len(indices.mat) = Len(mat_shape)
  /\ Len(indices.state) = Len(state_shape)

\* what torch.einsum checks before it contracts: one subscript per axis of
\* each operand, no letter twice in the output, every output letter in an
\* operand, and one size per letter (or size 1)
einsum_accepts(indices, mat_shape, state_shape) ==
  LET sized == [j \in 1..(Len(mat_shape) + Len(state_shape)) |->
                  IF j <= Len(mat_shape)
                  THEN <<indices.mat[j], mat_shape[j]>>
                  ELSE <<indices.state[j - Len(mat_shape)],
                         state_shape[j - Len(mat_shape)]>>]
  IN  /\ Len(indices.mat) = Len(mat_shape)
      /\ Len(indices.state) = Len(state_shape)
      /\ \A i, j \in DOMAIN indices.out : i # j => indices.out[i] # indices.out[j]
      /\ \A i \in DOMAIN indices.out :
           indices.out[i] \in SeqToSet(indices.mat) \cup SeqToSet(indices.state)
      /\ \A i, j \in DOMAIN sized :
           sized[i][1] = sized[j][1] =>
             sized[i][2] = sized[j][2] \/ sized[i][2] = 1 \/ sized[j][2] = 1

\* apply_unitary_einsum followed on the shapes alone: how it ends, the
\* expression it built and the shape it returns
apply_unitary_einsum_shape(state_shape, mat_shape, wires) ==
  LET total_wires == Len(state_shape) - 1
      is_batch_unitary == Len(mat_shape) > 2
      shape_extension == IF is_batch_unitary THEN <<mat_shape[1]>> ELSE <<>>
      view_shape == shape_extension \o [j \in 1..(2 * Len(wires)) |-> 2]
      indices == einsum_indices(total_wires, wires, is_batch_unitary)
      failed(what) == [outcome |-> what, indices |-> <<>>, shape |-> state_shape]
  IN  IF Prod(mat_shape) # Prod(view_shape) THEN failed("RuntimeError")
      ELSE IF \E j \in DOMAIN wires : wires[j] >= Len(ABC) THEN failed("IndexError")
      ELSE IF ~einsum_accepts(indices, view_shape, state_shape)
      THEN [outcome |-> "RuntimeError", indices |-> indices, shape |-> state_shape]
      ELSE [outcome |-> "ok", indices |-> indices,
            shape |-> [j \in DOMAIN indices.out |->
                         IF PosIn(indices.state, indices.out[j]) > 0
                         THEN state_shape[PosIn(indices.state, indices.out[j])]
                         ELSE view_shape[PosIn(indices.mat, indices.out[j])]]]

\* for d in sorted(devices_dims, reverse=True): del permute_to[d]
RECURSIVE DelDims(_, _)
DelDims(permute_to, dims) ==
  IF dims = {} THEN permute_to
  ELSE LET d == CHOOSE x \in dims : \A y \in dims : y <= x
       IN  DelDims(DelAt(permute_to, d), dims \ {d})

\* a variant that moves the wire axes in ascending order, whatever the order
\* they are listed in
apply_unitary_bmm_sorted(state, mat, wires) ==
  LET devices_dims == SortSeq([j \in 1..Len(wires) |-> wires[j] + 1],
                              LAMBDA x, y : x < y)
      kept == DelDims(Range0(Dim(state)), SeqToSet(devices_dims))
      permute_to == Slice(kept, 0, 1) \o devices_dims \o Slice(kept, 1, Len(kept))
      permute_back == Argsort(permute_to)
      permuted == Reshape(Permute(state, permute_to),
                          <<state.shape[1], mat.shape[Len(mat.shape)], -1>>)
      new_state == IF Len(mat.shape) > 2
                   THEN Bmm(mat, permuted)
                   ELSE Bmm(Expand(mat, permuted.shape[1]), permuted)
  IN  Permute(Reshape(new_state, state.shape), permute_back)

apply_unitary_bmm(state, mat, wires) ==
  LET device_wires == wires
      devices_dims == [j \in 1..Len(device_wires) |-> device_wires[j] + 1]
      kept == DelDims(Range0(Dim(state)), SeqToSet(devices_dims))
      permute_to == Slice(kept, 0, 1) \o devices_dims \o Slice(kept, 1, Len(kept))
      permute_back == Argsort(permute_to)
      original_shape == state.shape
      permuted == Reshape(Permute(state, permute_to),
                          <<original_shape[1], mat.shape[Len(mat.shape)], -1>>)
      new_state == IF Len(mat.shape) > 2
                   THEN Bmm(mat, permuted)
                   ELSE Bmm(Expand(mat, permuted.shape[1]), permuted)
  IN  Permute(Reshape(new_state, original_shape), permute_back)

(***************************************************************************)
(* Gate dispatcher.                                                        *)
(***************************************************************************)
\* params=None
NoParams == Tensor(<<-2>>, <<>>)
IsNone(p) == p.shape = <<-2>>

ExplicitNames == {"qubitunitary", "qubitunitaryfast", "qubitunitarystrict"}

\* t.squeeze(): every axis of size 1 dropped
SqueezeAll(t) == Tensor(SelectSeq(t.shape, LAMBDA d : d # 1), t.data)

\* the parameter normalisation that opens gate_wrapper
normalize_params(name, params) ==
  IF IsNone(params) THEN params
  ELSE IF name \in ExplicitNames
       THEN (IF Dim(params) = 2 THEN Unsqueeze0(params) ELSE params)
       ELSE IF Dim(params) = 1 THEN UnsqueezeLast(params)
            ELSE IF Dim(params) = 0 THEN UnsqueezeLast(UnsqueezeLast(params))
            ELSE params

\* a variant that sorts the wire list
normalize_wires_sorted(wires) == SortSeq(wires.v, LAMBDA x, y : x < y)

\* wires = [wires] if isinstance(wires, int) else wires; an int w is given
\* as [kind |-> "int", v |-> <<w>>], a list as [kind |-> "list", v |-> list]
normalize_wires(wires) == wires.v

\* the record appended to q_device.op_history
op_record(name, wires, params, inverse, requires_grad) ==
  [name |-> name,
   wires |-> SqueezeAll(Tensor(<<Len(wires)>>, wires)),
   params |-> IF IsNone(params) THEN NoParams ELSE SqueezeAll(params),
   inverse |-> inverse,
   trainable |-> IF IsNone(params) THEN FALSE ELSE requires_grad]

\* parent_graph.add_func(name, wires, parent_graph, params, n_wires, inverse)
add_func(graph, name, wires, params, n_wires, inverse) ==
  [graph EXCEPT !.func_list =
     Append(@, [name |-> name, wires |-> wires, params |-> params,
                n_wires |-> n_wires, inverse |-> inverse])]

\* mat(params) for a callable mat_dict entry
mat_of_params(name, params) ==
  CASE name = "rx" -> IF IsNone(params) THEN MatErr ELSE rx_matrix(params)
    [] name = "ry" -> IF IsNone(params) THEN MatErr ELSE ry_matrix(params)
    [] name = "rz" -> IF IsNone(params) THEN MatErr ELSE rz_matrix(params)
    [] name = "xxminyy" -> IF IsNone(params) THEN MatErr ELSE xxminyy_matrix(params)
    [] name = "cu1" -> IF IsNone(params) THEN MatErr ELSE cu1_matrix(params)
    [] name = "cu2" -> IF IsNone(params) THEN MatErr ELSE cu2_matrix(params)
    [] name = "u3" -> IF IsNone(params) THEN MatErr ELSE u3_matrix(params)
    [] name = "qubitunitary" ->
         IF IsNone(params) THEN MatErr ELSE qubitunitary_matrix(params)
    [] name = "qubitunitaryfast" ->
         IF IsNone(params) THEN MatErr ELSE qubitunitaryfast_matrix(params)
    [] name = "qubitunitarystrict" ->
         IF IsNone(params) THEN MatErr ELSE qubitunitarystrict_matrix(params)
    [] name = "su4" -> IF IsNone(params) THEN MatErr ELSE su4_matrix(params)
    [] name = "globalphase" ->
         IF IsNone(params) THEN MatErr ELSE globalphase_matrix(params)
    [] name \in {"multicnot", "multixcnot", "qft"} -> Raised("TypeError")

\* mat(n_wires) for the arity-parameterized entries without parameters
mat_of_n_wires(name, n) ==
  CASE name = "multicnot" -> multicnot_matrix(n)
    [] name = "multixcnot" -> multixcnot_matrix(n)
    [] name = "qft" -> qft_matrix(n)

\* matrix.conj() with its last two axes transposed
inverse_matrix(matrix) ==
  LET c == Conj(matrix)
  IN  IF Dim(c) = 3 THEN Permute(c, <<0, 2, 1>>) ELSE Permute(c, <<1, 0>>)

\* a variant that records whatever the flag says
record_op_history_always(dev, name, wires, params, inverse, requires_grad) ==
  [dev EXCEPT !.op_history =
     Append(@, op_record(name, wires, params, inverse, requires_grad))]

\* if q_device.record_op: q_device.op_history.append({...})
record_op_history(dev, name, wires, params, inverse, requires_grad) ==
  IF dev.record_op
  THEN [dev EXCEPT !.op_history =
          Append(@, op_record(name, wires, params, inverse, requires_grad))]
  ELSE dev

\* the matrix the immediate branch resolves before the inverse flag is applied;
\* n_wires is <<>> for None and <<n>> for n
resolve_matrix(name, params, n_wires) ==
  IF name \in CallableNames
  THEN IF n_wires = <<>> \/ name \in ExplicitNames
       THEN mat_of_params(name, params)
       ELSE IF name \in {"multicnot", "multixcnot", "qft"}
            THEN mat_of_n_wires(name, n_wires[1])
            ELSE mat_of_params(name, params)
  ELSE mat_dict(name)

\* a variant that only rejects a matrix smaller than the wires need
dimension_not_less(matrix, wires) ==
  matrix.shape[Len(matrix.shape)] >= Pow2(Len(wires))

\* assert np.log2(matrix.shape[-1]) == len(wires)
dimension_ok(matrix, wires) == matrix.shape[Len(matrix.shape)] = Pow2(Len(wires))

\* the shapes mat.view, torch.einsum and its batch letter accept
einsum_fits(state, mat, wires) ==
  LET ext == IF Len(mat.shape) > 2 THEN mat.shape[1] ELSE 1
  IN  /\ Len(mat.data) = ext * Pow2(2 * Len(wires))
      /\ ext \in {1, state.shape[1]} \/ state.shape[1] = 1

\* the shapes expand, torch.bmm and the final view accept
bmm_fits(state, mat, wires) ==
  /\ Len(mat.shape) \in {2, 3}
  /\ Len(mat.shape) = 3 => mat.shape[1] = state.shape[1]
  /\ mat.shape[Len(mat.shape) - 1] = mat.shape[Len(mat.shape)]

\* the contraction chosen by method; any other method leaves the state alone
contract(method, state, matrix, wires) ==
  IF method = "einsum"
  THEN IF einsum_fits(state, matrix, wires)
       THEN apply_unitary_einsum(state, matrix, wires)
       ELSE Raised("RuntimeError")
  ELSE IF method = "bmm"
  THEN IF bmm_fits(state, matrix, wires)
       THEN apply_unitary_bmm(state, matrix, wires)
       ELSE Raised("RuntimeError")
  ELSE state

\* q_device.states = new_state, unless the contraction raised
store_state(dev, graph, new_state) ==
  IF IsErr(new_state)
  THEN [q_device |-> dev, parent_graph |-> graph, outcome |-> ErrOutcome(new_state)]
  ELSE [q_device |-> [dev EXCEPT !.states = new_state],
        parent_graph |-> graph, outcome |-> "ok"]

\* the assert on the matrix, then the contraction of the state with it
apply_matrix(dev, graph, method, wires, matrix) ==
  IF ~dimension_ok(matrix, wires)
  THEN [q_device |-> dev, parent_graph |-> graph, outcome |-> "AssertionError"]
  ELSE store_state(dev, graph, contract(method, dev.states, matrix, wires))

\* the resolved matrix, inverted when the flag says so, on its way to the
\* state; a builder that raised ends the call
use_matrix(dev, graph, method, wires, inverse, matrix0) ==
  IF IsErr(matrix0)
  THEN [q_device |-> dev, parent_graph |-> graph, outcome |-> ErrOutcome(matrix0)]
  ELSE apply_matrix(dev, graph, method, wires,
                    IF inverse THEN inverse_matrix(matrix0) ELSE matrix0)

\* the immediate branch
dynamic_branch(dev, graph, name, method, wires, params, n_wires, inverse) ==
  use_matrix(dev, graph, method, wires, inverse, resolve_matrix(name, params, n_wires))

\* a variant that logs the call and then computes it as well
static_branch_falls_through(dev, graph, name, wires, params, n_wires, inverse) ==
  [dynamic_branch(dev, graph, name, "bmm", wires, params, n_wires, inverse)
     EXCEPT !.parent_graph = add_func(graph, name, wires, params, n_wires, inverse)]

\* the static branch: the call is handed to the graph, the state is not read
static_branch(dev, graph, name, wires, params, n_wires, inverse) ==
  [q_device |-> dev,
   parent_graph |-> add_func(graph, name, wires, params, n_wires, inverse),
   outcome |-> "ok"]

\* a variant that returns once the call is recorded in op_history
gate_wrapper_early_return(name, method, dev, graph, wires0, params0, n_wires, static, inverse, requires_grad) ==
  LET params == normalize_params(name, params0)
      wires == normalize_wires(wires0)
      dev1 == record_op_history(dev, name, wires, params, inverse, requires_grad)
  IN  IF dev.record_op
      THEN [q_device |-> dev1, parent_graph |-> graph, outcome |-> "ok"]
      ELSE IF static
      THEN static_branch(dev1, graph, name, wires, params, n_wires, inverse)
      ELSE dynamic_branch(dev1, graph, name, method, wires, params, n_wires, inverse)

\* gate_wrapper: the device and graph after the call and how the call ended
gate_wrapper(name, method, dev, graph, wires0, params0, n_wires, static, inverse, requires_grad) ==
  LET params == normalize_params(name, params0)
      wires == normalize_wires(wires0)
      dev1 == record_op_history(dev, name, wires, params, inverse, requires_grad)
  IN  IF static
      THEN static_branch(dev1, graph, name, wires, params, n_wires, inverse)
      ELSE dynamic_branch(dev1, graph, name, method, wires, params, n_wires, inverse)

(***************************************************************************)
(* Non-unitary reset.                                                      *)
(***************************************************************************)
\* the squared magnitudes of batch row b of a state, summed
Energy(states, b) ==
  LET n == Len(states.data) \div states.shape[1]
  IN  CSum([i \in 1..n |-> CAbs2(states.data[b * n + i])])

RECURSIVE Log2(_)
Log2(n) == IF n <= 1 THEN 0 ELSE 1 + Log2(n \div 2)

\* e is 2^m for an integer m: the energies whose inverse square root the
\* ring holds
IsPow2(e) ==
  e[2] = 0 /\ e[3] = 0 /\ e[4] = 0 /\ e[1] > 0 /\ Pow2(Log2(e[1])) = e[1]

\* torch.sqrt(1 / e) for e = 2^m
InvSqrt(e) ==
  LET m == Log2(e[1]) - e[5]
  IN  IF m >= 0 THEN CPow(INV_SQRT2, m) ELSE CPow(<<0, 1, 0, -1, 0>>, -m)

\* normalize_statevector: every batch row divided by the square root of its
\* total probability; a row of zero probability is reported
normalize_statevector(states) ==
  LET n == Len(states.data) \div states.shape[1]
      factor(b) == InvSqrt(Energy(states, b))
  IN  IF \E b \in 0..(states.shape[1] - 1) : Energy(states, b) = Zero
      THEN MatErr
      ELSE Tensor(states.shape,
             [i \in 1..Len(states.data) |->
                CMul(factor((i - 1) \div n), states.data[i])])

\* a variant that fills the slice of every batch row from the first row
ZeroLastOddShared(storage, axes) ==
  LET a == axes[Len(axes)]
      n == Len(storage.data) \div storage.shape[1]
  IN  Tensor(storage.shape,
        [i \in 1..Len(storage.data) |->
           IF At(Unravel(i - 1, storage.shape), a) # 1 THEN storage.data[i]
           ELSE IF i <= n THEN Zero ELSE storage.data[((i - 1) % n) + 1]])

\* a variant that multiplies the slice by i where the code zeroes it
ZeroLastOddTurned(storage, axes) ==
  LET a == axes[Len(axes)]
  IN  Tensor(storage.shape,
        [i \in 1..Len(storage.data) |->
           IF At(Unravel(i - 1, storage.shape), a) = 1
           THEN CMul(ImagI, storage.data[i]) ELSE storage.data[i]])

\* permuted[..., 1] = 0 through a view whose axis j is axis axes[j] of the
\* storage: the storage with index 1 on the view's last axis zeroed
ZeroLastOdd(storage, axes) ==
  LET a == axes[Len(axes)]
  IN  Tensor(storage.shape,
        [i \in 1..Len(storage.data) |->
           IF At(Unravel(i - 1, storage.shape), a) = 1 THEN Zero ELSE storage.data[i]])

\* view.permute(perm) of a view given by its axes
ViewPermute(axes, perm) == [j \in 1..Len(perm) |-> At(axes, perm[j])]

\* the loop of reset: state is a view (axes) of the storage of q_device.states
RECURSIVE reset_loop(_, _, _)
reset_loop(storage, axes, wires) ==
  IF wires = <<>> THEN storage
  ELSE LET devices_dim == Head(wires) + 1
           permute_to == DelAt(Range0(Len(axes)), devices_dim) \o <<devices_dim>>
           permute_back == Argsort(permute_to)
           permuted == ViewPermute(axes, permute_to)
       IN  reset_loop(ZeroLastOdd(storage, permuted),
                      ViewPermute(axes, permute_back), Tail(wires))

\* reset(q_device, wires): the device after the call and how the call ended
reset(dev, wires0) ==
  LET wires == normalize_wires(wires0)
      zeroed == reset_loop(dev.states, Range0(Dim(dev.states)), wires)
      normed == normalize_statevector(zeroed)
  IN  IF IsErr(normed)
      THEN [q_device |-> [dev EXCEPT !.states = zeroed], outcome |-> "raised"]
      ELSE [q_device |-> [dev EXCEPT !.states = normed], outcome |-> "ok"]

(***************************************************************************)
(* The device, the calls made on it and the state machine.                 *)
(***************************************************************************)
Wires == 0..(NWires - 1)
NStates == Pow2(NWires)
StateShape == <<Bsz>> \o [j \in 1..NWires |-> 2]

\* every batch row |0...0>: the state of a freshly constructed device
ZeroState ==
  Tensor(StateShape, [i \in 1..(Bsz * NStates) |->
                        IF (i - 1) % NStates = 0 THEN One ELSE Zero])

\* a normalized state set by the caller: row b is (|p> + i|q>)/sqrt(2)
SuperState ==
  LET p(b) == (5 * (b + 1)) % NStates
      q(b) == (p(b) + 3) % NStates
      amp(b, x) == IF x = p(b) THEN INV_SQRT2
                   ELSE IF x = q(b) THEN CMul(ImagI, INV_SQRT2) ELSE Zero
  IN  Tensor(StateShape, [i \in 1..(Bsz * NStates) |->
                            amp((i - 1) \div NStates, (i - 1) % NStates)])

InitStates == {ZeroState, SuperState}

IntWire(w) == [kind |-> "int", v |-> <<w>>]
ListWires(l) == [kind |-> "list", v |-> l]

WirePairs == {<<c, t>> : c \in Wires, t \in Wires} \ {<<w, w>> : w \in Wires}

\* a 0-D tensor made from a Python number
Scalar(x) == Tensor(<<>>, <<x>>)

\* a square matrix that is not unitary
NonUnitary2 == Mat(<<<<One, ImagI>>, <<Zero, CInt(2)>>>>)

\* name, wires, params, n_wires and whether params.requires_grad
BaseCall(name, wires, params, n_wires, requires_grad) ==
  [name |-> name, wires |-> wires, params |-> params, n_wires |-> n_wires,
   requires_grad |-> requires_grad]

\* cnot on every ordered pair of distinct wires
CnotBases == {BaseCall("cnot", ListWires(w), NoParams, <<>>, FALSE) : w \in WirePairs}

\* gates on wire lists their matrix fits; angles are in units of pi/2
GateBases ==
  {BaseCall("hadamard", IntWire(0), NoParams, <<>>, FALSE),
   BaseCall("t", ListWires(<<NWires - 1>>), NoParams, <<>>, FALSE),
   BaseCall("sx", ListWires(<<1>>), NoParams, <<>>, FALSE),
   BaseCall("rx", IntWire(0), Scalar(1), <<>>, FALSE),
   BaseCall("rz", ListWires(<<1>>), Tensor(<<Bsz, 1>>, [b \in 1..Bsz |-> b]), <<>>, TRUE),
   BaseCall("cu2", ListWires(<<1, 0>>), Tensor(<<1, 2>>, <<0, 1>>), <<>>, TRUE),
   BaseCall("toffoli", ListWires(<<NWires - 1, 0, 1>>), NoParams, <<>>, FALSE),
   BaseCall("qubitunitaryfast", ListWires(<<NWires - 1>>), NonUnitary2, <<>>, FALSE)}

\* calls whose matrix does not fit the wire list
MismatchBases ==
  {BaseCall("cnot", IntWire(1), NoParams, <<>>, FALSE),
   BaseCall("hadamard", ListWires(<<0, 1>>), NoParams, <<>>, FALSE),
   BaseCall("multicnot", ListWires(<<0, 1>>), NoParams, <<3>>, FALSE)}

\* the calls made in static mode
StaticBases ==
  {BaseCall("cnot", ListWires(<<1, 0>>), NoParams, <<>>, FALSE),
   BaseCall("hadamard", IntWire(NWires - 1), NoParams, <<>>, FALSE),
   BaseCall("rx", IntWire(0), Scalar(1), <<>>, FALSE),
   BaseCall("rz", ListWires(<<1>>), Tensor(<<Bsz, 1>>, [b \in 1..Bsz |-> b]), <<>>, TRUE),
   BaseCall("multicnot", ListWires(<<0, 1>>), NoParams, <<3>>, FALSE)}

Methods == {"bmm", "einsum"}

Call(base, static, inverse, method) ==
  [base |-> base, static |-> static, inverse |-> inverse, method |-> method]

Calls ==
       {Call(b, FALSE, inv, m) : b \in GateBases, inv \in BOOLEAN, m \in Methods}
  \cup {Call(b, FALSE, FALSE, m) : b \in CnotBases \cup MismatchBases, m \in Methods}
  \cup {Call(b, TRUE, inv, "bmm") : b \in StaticBases, inv \in BOOLEAN}

\* the arity a gate function hands to gate_wrapper: qft takes len(wires)
\* when it is called without n_wires, every other function hands on what
\* it was given
default_n_wires(name, wires, n_wires) ==
  IF name = "qft" /\ n_wires = <<>> THEN <<Len(normalize_wires(wires))>> ELSE n_wires

\* the gate function func_name_dict[name] called with the call's arguments
gate(c, dev, graph) ==
  gate_wrapper(c.base.name, c.method, dev, graph, c.base.wires, c.base.params,
               default_n_wires(c.base.name, c.base.wires, c.base.n_wires),
               c.static, c.inverse, c.base.requires_grad)

NewDevice(states, record_op) ==
  [states |-> states, record_op |-> record_op, op_history |-> <<>>]

NewGraph == [func_list |-> <<>>]

\* a device that records its calls and a twin, in the same state, that does not
Init ==
  /\ \E st \in InitStates :
       /\ q_device = NewDevice(st, TRUE)
       /\ q_device2 = NewDevice(st, FALSE)
  /\ parent_graph = NewGraph
  /\ parent_graph2 = NewGraph
  /\ hist = <<>>

\* the devices and graphs a call left, r on the device and r2 on its twin,
\* and the call added to the history
Record(c, r, r2) ==
  /\ q_device' = r.q_device
  /\ parent_graph' = r.parent_graph
  /\ q_device2' = r2.q_device
  /\ parent_graph2' = r2.parent_graph
  /\ hist' = Append(hist, [kind |-> "gate", call |-> c,
                           pre |-> q_device.states, outcome |-> r.outcome])

\* one call of a gate function, made on the device and on its twin
Dispatch ==
  /\ Len(hist) < MaxOps
  /\ \E c \in Calls :
       Record(c, gate(c, q_device, parent_graph), gate(c, q_device2, parent_graph2))

ResetWires ==
       {IntWire(w) : w \in Wires}
  \cup {ListWires(<<w>>) : w \in {0}}
  \cup {ListWires(w) : w \in WirePairs}

\* the rows left by the zeroing have a norm whose inverse square root the
\* ring holds (or are zero)
Representable(states) ==
  \A b \in 0..(states.shape[1] - 1) :
     Energy(states, b) = Zero \/ IsPow2(Energy(states, b))

\* one call of reset, made on the device and on its twin
Reset ==
  /\ Len(hist) < MaxOps
  /\ \E w \in ResetWires :
       LET r == reset(q_device, w)
           r2 == reset(q_device2, w)
       IN  /\ Representable(reset_loop(q_device.states, Range0(Dim(q_device.states)),
                                       normalize_wires(w)))
           /\ q_device' = r.q_device
           /\ q_device2' = r2.q_device
           /\ UNCHANGED <<parent_graph, parent_graph2>>
           /\ hist' = Append(hist, [kind |-> "reset", wires |-> w,
                                    pre |-> q_device.states, outcome |-> r.outcome])

Next == Dispatch \/ Reset

Spec == Init /\ [][Next]_vars

(***************************************************************************)
(* The two contraction strategies applied directly to chosen inputs.       *)
(***************************************************************************)
\* every ordered list of distinct wires
WireLists ==
  {w \in UNION {[1..k -> Wires] : k \in 1..NWires} :
     \A i, j \in DOMAIN w : i # j => w[i] # w[j]}

\* a state and matrices without structure: all entries differ
GenericState ==
  Tensor(StateShape, [i \in 1..(Bsz * NStates) |-> Cx(i, 0, i * i, 1, i % 3)])

GenericMatrix(k) ==
  Tensor(<<Pow2(k), Pow2(k)>>, [i \in 1..(Pow2(k) * Pow2(k)) |-> Cx(i, 1, 0, i % 2, 0)])

GenericBatched(k) ==
  Tensor(<<Bsz, Pow2(k), Pow2(k)>>,
         [i \in 1..(Bsz * Pow2(k) * Pow2(k)) |-> Cx(i % 5, i, 1, 0, i % 2)])

Matrices(k) == {GenericMatrix(k), GenericBatched(k)}

ApplyStates == {ZeroState, SuperState, GenericState}

InitApply ==
  /\ \E st \in ApplyStates :
       /\ q_device = NewDevice(st, FALSE)
       /\ q_device2 = NewDevice(st, FALSE)
  /\ parent_graph = NewGraph
  /\ parent_graph2 = NewGraph
  /\ hist = <<>>

Applied(fn, mat, wires) ==
  [kind |-> "apply", fn |-> fn, matrix |-> mat, wires |-> wires,
   pre |-> q_device.states]

ApplyEinsum ==
  /\ Len(hist) < MaxApply
  /\ \E w \in WireLists : \E m \in Matrices(Len(w)) :
       /\ q_device' = [q_device EXCEPT
                         !.states = apply_unitary_einsum(q_device.states, m, w)]
       /\ hist' = Append(hist, Applied("einsum", m, w))
  /\ UNCHANGED <<parent_graph, q_device2, parent_graph2>>

ApplyBmm ==
  /\ Len(hist) < MaxApply
  /\ \E w \in WireLists : \E m \in Matrices(Len(w)) :
       /\ q_device' = [q_device EXCEPT
                         !.states = apply_unitary_bmm(q_device.states, m, w)]
       /\ hist' = Append(hist, Applied("bmm", m, w))
  /\ UNCHANGED <<parent_graph, q_device2, parent_graph2>>

\* one call of reset on a device no matrix was applied to
ResetOnce ==
  /\ Len(hist) < MaxApply
  /\ Reset

NextApply == ApplyEinsum \/ ApplyBmm \/ ResetOnce

SpecApply == InitApply /\ [][NextApply]_vars

(***************************************************************************)
(* Single calls of the gate functions on a wider set of gates and          *)
(* arguments.                                                              *)
(***************************************************************************)
CallStates == InitStates \cup {GenericState}

\* multicnot told the number of wires it is given
MulticnotWires ==
  {<<NWires - 1>>, <<0>>, <<1, 0>>, <<0, NWires - 1>>, <<0, 1, 2>>, <<NWires - 1, 0, 1>>}

MulticnotBases ==
  {BaseCall("multicnot", ListWires(w), NoParams, <<Len(w)>>, FALSE) : w \in MulticnotWires}

\* the gates built from an arity, called without n_wires and with
\* n_wires = len(wires)
ArityBases ==
       {BaseCall(name, ListWires(w), NoParams, n, FALSE) :
          name \in {"qft", "multixcnot"}, w \in {<<NWires - 1>>, <<1, 0>>},
          n \in {<<>>, <<1>>, <<2>>}}
  \cup {BaseCall("multicnot", ListWires(w), NoParams, <<>>, FALSE) :
          w \in {<<0>>, <<0, NWires - 1>>}}
  \cup {BaseCall("qft", ListWires(<<0, 1, 2>>), NoParams, <<>>, FALSE)}

\* a 4 x 2 matrix: its last dimension fits one wire, its rows do not
NonSquare42 == Mat(<<<<One, Zero>>, <<Zero, One>>, <<One, Zero>>, <<Zero, One>>>>)

\* the phase gate diag(1, i), a unitary
PhaseS == Mat(<<<<One, Zero>>, <<Zero, ImagI>>>>)

\* caller-supplied operators for one wire: not square, square and not
\* unitary (alone and as a batch), and unitary
SuppliedMatrices == {NonSquare42, NonUnitary2, GenericBatched(1), PhaseS}

\* qubitunitary and qubitunitaryfast handed each operator on an outer wire,
\* qubitunitaryfast handed a 4 x 4 operator on two wires, and
\* qubitunitarystrict handed one unitary matrix
SuppliedBases ==
       {BaseCall(name, ListWires(<<w>>), m, <<>>, FALSE) :
          name \in {"qubitunitary", "qubitunitaryfast"},
          m \in SuppliedMatrices, w \in {0, NWires - 1}}
  \cup {BaseCall("qubitunitaryfast", ListWires(<<1, 0>>), GenericMatrix(2), <<>>, FALSE)}
  \cup {BaseCall("qubitunitarystrict", ListWires(<<w>>), PhaseS, <<>>, FALSE) :
          w \in {0, NWires - 1}}

\* angles in units of pi/2 as row r of a (B, p) tensor: r, r + 1, ...
Angles(B, p) == Tensor(<<B, p>>, [i \in 1..(B * p) |-> ((i - 1) \div p) + ((i - 1) % p) + 1])

\* the 15 angles of su4: all zero, one row of angles that differ, and a
\* batch whose first row is zero
Su4Angles ==
  {Tensor(<<1, 15>>, [i \in 1..15 |-> 0]),
   Tensor(<<1, 15>>, [i \in 1..15 |-> (i * i + 1) % 8]),
   Tensor(<<Bsz, 15>>, [i \in 1..(Bsz * 15) |-> IF i <= 15 THEN 0 ELSE (3 * i + 1) % 8])}

\* angle gates handed a Python number, a 1-D tensor, one row of angles and
\* a batch of rows
AngleBases ==
       {BaseCall("rx", ListWires(<<0>>), a, <<>>, FALSE) :
          a \in {Scalar(1), Tensor(<<1>>, <<1>>), Angles(1, 1), Angles(Bsz, 1)}}
  \cup {BaseCall("rz", ListWires(<<NWires - 1>>), Angles(B, 1), <<>>, FALSE) : B \in {1, Bsz}}
  \cup {BaseCall("u3", ListWires(<<1>>), a, <<>>, FALSE) :
          a \in {Tensor(<<3>>, <<1, 2, 3>>), Angles(1, 3), Angles(Bsz, 3)}}
  \cup {BaseCall("cu1", ListWires(<<0, NWires - 1>>), Angles(B, 1), <<>>, FALSE) :
          B \in {1, Bsz}}
  \cup {BaseCall("xxminyy", ListWires(<<1, 0>>), Angles(B, 2), <<>>, FALSE) : B \in {1, Bsz}}
  \cup {BaseCall("su4", ListWires(<<1, 0>>), a, <<>>, FALSE) : a \in Su4Angles}
  \cup {BaseCall("globalphase", w, Scalar(a), <<>>, FALSE) :
          w \in {IntWire(0), ListWires(<<1, NWires - 1>>), ListWires(<<0, 1, 2>>)},
          a \in {1, 3}}

\* calls whose params are None or an operator, and calls whose params are
\* angles
OnceBases == MulticnotBases \cup SuppliedBases \cup ArityBases

\* fixed gates called with a method string that names no contraction
UnknownMethodCalls ==
  {Call(b, FALSE, inv, "matmul") :
     b \in {BaseCall("hadamard", IntWire(0), NoParams, <<>>, FALSE),
            BaseCall("cnot", ListWires(<<NWires - 1, 0>>), NoParams, <<>>, FALSE)},
     inv \in BOOLEAN}

OnceCalls ==
  {Call(b, FALSE, FALSE, m) : b \in OnceBases, m \in Methods} \cup UnknownMethodCalls

AngleCalls == {Call(b, FALSE, FALSE, m) : b \in AngleBases, m \in Methods}

InitCall ==
  /\ \E st \in CallStates :
       /\ q_device = NewDevice(st, TRUE)
       /\ q_device2 = NewDevice(st, FALSE)
  /\ parent_graph = NewGraph
  /\ parent_graph2 = NewGraph
  /\ hist = <<>>

\* the call c made on the device and on its twin
DispatchCall(c) ==
  Record(c, gate(c, q_device, parent_graph), gate(c, q_device2, parent_graph2))

\* the first call of a gate function on a device, and on its twin
DispatchOnce ==
  /\ hist = <<>>
  /\ \E c \in OnceCalls : DispatchCall(c)

\* the first call of an angle gate on a device, and on its twin
DispatchAngles ==
  /\ hist = <<>>
  /\ \E c \in AngleCalls : DispatchCall(c)

NextCall == DispatchOnce \/ DispatchAngles

SpecCall == InitCall /\ [][NextCall]_vars

(***************************************************************************)
(* Density-matrix path (density_func.py): the two contractions, the gate   *)
(* wrapper and the name registries.                                        *)
(***************************************************************************)
\* the shapes the views, the permute that builds matdag and the two einsum
\* calls accept: the viewed matrix has 2 or 3 axes, and a batched one is
\* read by the second einsum with its batch axis under a wire letter
density_einsum_fits(density, mat, wires) ==
  LET ext == IF Len(mat.shape) > 2 THEN mat.shape[1] ELSE 1
      rank == (IF Len(mat.shape) > 2 THEN 1 ELSE 0) + 2 * Len(wires)
  IN  /\ Len(mat.data) = ext * Pow2(2 * Len(wires))
      /\ rank \in {2, 3}
      /\ Len(mat.shape) > 2 => ext = density.shape[1] /\ ext = 2

apply_unitary_density_einsum(density, mat, wires) ==
  LET device_wires == wires
      n_qubit == (Dim(density) - 1) \div 2
      total_wires == Len(density.shape) - 1
      is_batch_unitary == Len(mat.shape) > 2
      shape_extension == IF is_batch_unitary THEN <<mat.shape[1]>> ELSE <<>>
      matv == Reshape(mat, shape_extension \o [j \in 1..(2 * Len(device_wires)) |-> 2])
      matdag == IF Len(matv.shape) > 2 THEN Conj(Permute(matv, <<0, 2, 1>>))
                ELSE Conj(Permute(matv, <<1, 0>>))
      batch == <<At(ABC, Len(ABC) - 1)>>
      density_indices == Slice(ABC, 0, total_wires)
      new_indices == Slice(ABC, total_wires, total_wires + Len(device_wires))
      \* U rho
      affected_indices == [j \in 1..Len(device_wires) |-> At(ABC, device_wires[j])]
      new_density_indices == ReplaceAll(density_indices, affected_indices, new_indices)
      mat_indices == (IF is_batch_unitary THEN batch ELSE <<>>)
                       \o new_indices \o affected_indices
      new_density == Einsum(mat_indices, batch \o density_indices,
                            batch \o new_density_indices, matv, density)
      \* the second contraction: its operand is density, not new_density
      affected_indices2 ==
        [j \in 1..Len(device_wires) |-> At(ABC, device_wires[j] + n_qubit)]
      new_density_indices2 == ReplaceAll(density_indices, affected_indices2, new_indices)
      dag_indices == affected_indices2
                       \o (IF is_batch_unitary THEN batch ELSE <<>>) \o new_indices
  IN  Einsum(batch \o density_indices, dag_indices, batch \o new_density_indices2,
             density, matdag)

\* the shapes the reshapes, expand, torch.bmm and the views accept: the
\* matrix is square and its size divides the entries of a batch row; the
\* wire list is not compared with it
density_bmm_fits(density, mat, wires) ==
  /\ Len(mat.shape) \in {2, 3}
  /\ Len(mat.shape) = 3 => mat.shape[1] = density.shape[1]
  /\ mat.shape[Len(mat.shape) - 1] = mat.shape[Len(mat.shape)]
  /\ (Len(density.data) \div density.shape[1]) % mat.shape[Len(mat.shape)] = 0

apply_unitary_density_bmm(density, mat, wires) ==
  LET device_wires == wires
      n_qubit == (Dim(density) - 1) \div 2
      original_shape == density.shape
      \* U rho
      devices_dims == [j \in 1..Len(device_wires) |-> device_wires[j] + 1]
      kept == DelDims(Range0(Dim(density)), SeqToSet(devices_dims))
      permute_to == Slice(kept, 0, 1) \o devices_dims \o Slice(kept, 1, Len(kept))
      permute_back == Argsort(permute_to)
      permuted == Reshape(Permute(density, permute_to),
                          <<original_shape[1], mat.shape[Len(mat.shape)], -1>>)
      product == IF Len(mat.shape) > 2
                 THEN Bmm(mat, permuted)
                 ELSE Bmm(Expand(mat, permuted.shape[1]), permuted)
      new_density == Permute(Reshape(product, original_shape), permute_back)
      \* U rho U^dagger
      devices_dims2 == [j \in 1..Len(device_wires) |-> device_wires[j] + 1 + n_qubit]
      permute_to2 == DelDims(Range0(Dim(density)), SeqToSet(devices_dims2)) \o devices_dims2
      permute_back2 == Argsort(permute_to2)
      permuted2 == Reshape(Permute(new_density, permute_to2),
                           <<original_shape[1], -1, mat.shape[Len(mat.shape)]>>)
      matdag == IF Len(mat.shape) > 2 THEN Conj(Permute(mat, <<0, 2, 1>>))
                ELSE Conj(Permute(mat, <<1, 0>>))
      product2 == IF Len(mat.shape) > 2
                  THEN Bmm(permuted2, matdag)
                  ELSE Bmm(permuted2, Expand(matdag, permuted2.shape[1]))
  IN  Permute(Reshape(product2, original_shape), permute_back2)

\* the parameter normalisation that opens the density gate_wrapper
density_normalize_params(name, params) ==
  IF IsNone(params) THEN params
  ELSE IF name \in ExplicitNames
       THEN (IF Dim(params) = 2 THEN Unsqueeze0(params) ELSE params)
       ELSE IF Dim(params) = 1 THEN UnsqueezeLast(params) ELSE params

density_contract(method, state, matrix, wires) ==
  IF method = "einsum"
  THEN IF density_einsum_fits(state, matrix, wires)
       THEN apply_unitary_density_einsum(state, matrix, wires)
       ELSE Raised("RuntimeError")
  ELSE IF method = "bmm"
  THEN IF density_bmm_fits(state, matrix, wires)
       THEN apply_unitary_density_bmm(state, matrix, wires)
       ELSE Raised("RuntimeError")
  ELSE state

\* the immediate branch of the density gate_wrapper: no assert on the matrix
density_use_matrix(dev, graph, method, wires, inverse, matrix0) ==
  IF IsErr(matrix0)
  THEN [q_device |-> dev, parent_graph |-> graph, outcome |-> ErrOutcome(matrix0)]
  ELSE store_state(dev, graph,
                   density_contract(method, dev.states,
                                    IF inverse THEN inverse_matrix(matrix0) ELSE matrix0,
                                    wires))

\* gate_wrapper of density_func.py: no op_history
density_gate_wrapper(name, method, dev, graph, wires0, params0, n_wires, static, inverse) ==
  LET params == density_normalize_params(name, params0)
      wires == normalize_wires(wires0)
  IN  IF static
      THEN [q_device |-> dev,
            parent_graph |-> add_func(graph, name, wires, params, n_wires, inverse),
            outcome |-> "ok"]
      ELSE density_use_matrix(dev, graph, method, wires, inverse,
                              resolve_matrix(name, params, n_wires))

\* the gate function of density_func.py called with the call's arguments
density_gate(c, dev, graph) ==
  density_gate_wrapper(c.base.name, c.method, dev, graph, c.base.wires, c.base.params,
                       c.base.n_wires, c.static, c.inverse)

\* the names bound to another gate function: alias = function
Aliases ==
  [h |-> "hadamard", sh |-> "shadamard", x |-> "paulix", y |-> "pauliy",
   z |-> "pauliz", xx |-> "rxx", yy |-> "ryy", zz |-> "rzz", zx |-> "rzx",
   cx |-> "cnot", ccnot |-> "toffoli", ccx |-> "toffoli", u |-> "u3",
   p |-> "phaseshift", cp |-> "cu1", cr |-> "cu1", cphase |-> "cu1",
   echoedcrossresonance |-> "ecr", ch |-> "chadamard"]

\* density_func.py binds the same names but for the last two, and cu = cu3
DensityAliases ==
  [h |-> "hadamard", sh |-> "shadamard", x |-> "paulix", y |-> "pauliy",
   z |-> "pauliz", xx |-> "rxx", yy |-> "ryy", zz |-> "rzz", zx |-> "rzx",
   cx |-> "cnot", ccnot |-> "toffoli", ccx |-> "toffoli", u |-> "u3",
   cu |-> "cu3", p |-> "phaseshift", cp |-> "cu1", cr |-> "cu1", cphase |-> "cu1"]

\* the keys of func_name_dict (functionals.py)
FuncKeys ==
  {"hadamard", "h", "sh", "paulix", "pauliy", "pauliz", "i", "s", "t", "sx",
   "cnot", "cz", "cy", "rx", "ry", "rz", "rxx", "xx", "ryy", "yy", "rzz", "zz",
   "rzx", "zx", "swap", "sswap", "cswap", "toffoli", "phaseshift", "p", "cp",
   "rot", "multirz", "crx", "cry", "crz", "crot", "u1", "u2", "u3", "u", "cu1",
   "cphase", "cr", "cu2", "cu3", "cu", "kron", "su4", "qubitunitary",
   "qubitunitaryfast", "qubitunitarystrict", "multicnot", "multixcnot", "x",
   "y", "z", "cx", "ccnot", "ccx", "reset", "singleexcitation", "ecr",
   "echoedcrossresonance", "qft", "sdg", "tdg", "sxdg", "ch", "ccz", "iswap",
   "cs", "csdg", "csx", "chadamard", "dcx", "xxminyy", "xxplusyy", "c3x", "r",
   "globalphase", "c3sx", "rccx", "rc3x", "c4x"}

\* the keys of func_name_dict (density_func.py)
DensityFuncKeys ==
  {"hadamard", "sh", "paulix", "pauliy", "pauliz", "i", "s", "t", "sx",
   "cnot", "cz", "cy", "rx", "ry", "rz", "rxx", "xx", "ryy", "yy", "rzz", "zz",
   "rzx", "zx", "swap", "sswap", "cswap", "toffoli", "phaseshift", "p", "cp",
   "rot", "multirz", "crx", "cry", "crz", "crot", "u1", "u2", "u3", "u", "cu1",
   "cphase", "cr", "cu2", "cu3", "cu", "su4", "qubitunitary",
   "qubitunitaryfast", "qubitunitarystrict", "multicnot", "multixcnot", "x",
   "y", "z", "cx", "ccnot", "ccx", "reset"}

\* func_name_dict: each key with the name of the function it holds
func_name_dict ==
  [k \in FuncKeys |-> IF k \in DOMAIN Aliases THEN Aliases[k] ELSE k]

density_func_name_dict ==
  [k \in DensityFuncKeys |-> IF k \in DOMAIN DensityAliases THEN DensityAliases[k] ELSE k]

\* func_name_dict[key](q_device, ...): a key the registry lacks is a KeyError
call_by_name(key, c, dev, graph) ==
  IF key \in DOMAIN func_name_dict
  THEN gate([c EXCEPT !.base.name = func_name_dict[key]], dev, graph)
  ELSE [q_device |-> dev, parent_graph |-> graph, outcome |-> "KeyError"]

density_call_by_name(key, c, dev, graph) ==
  IF key \in DOMAIN density_func_name_dict
  THEN density_gate([c EXCEPT !.base.name = density_func_name_dict[key]], dev, graph)
  ELSE [q_device |-> dev, parent_graph |-> graph, outcome |-> "KeyError"]

\* rho = |psi><psi| for every batch row of a statevector tensor
Outer(states) ==
  LET N == Len(states.data) \div states.shape[1]
      amp(b, x) == states.data[b * N + x + 1]
  IN  Tensor(<<states.shape[1]>> \o Tail(states.shape) \o Tail(states.shape),
             [i \in 1..(states.shape[1] * N * N) |->
                CMul(amp((i - 1) \div (N * N), ((i - 1) \div N) % N),
                     CConj(amp((i - 1) \div (N * N), (i - 1) % N)))])

\* gates named by their registry key: one-wire gates on every wire, two-wire
\* gates on every ordered pair, aliases next to their canonical names, and
\* two calls whose matrix does not fit the wire list
NamedBases ==
       {BaseCall(n, ListWires(<<w>>), NoParams, <<>>, FALSE) :
          n \in {"hadamard", "t", "sx"}, w \in Wires}
  \cup {BaseCall(n, IntWire(NWires - 1), NoParams, <<>>, FALSE) : n \in {"h", "x", "paulix"}}
  \cup {BaseCall("cnot", ListWires(w), NoParams, <<>>, FALSE) : w \in WirePairs}
  \cup {BaseCall(n, ListWires(<<NWires - 1, 0>>), NoParams, <<>>, FALSE) : n \in {"cx", "cz"}}
  \cup {BaseCall(n, ListWires(<<1, NWires - 1, 0>>), NoParams, <<>>, FALSE) :
          n \in {"toffoli", "ccx"}}
  \cup {BaseCall(n, ListWires(<<1>>), Tensor(<<1, 3>>, <<1, 2, 3>>), <<>>, FALSE) :
          n \in {"u3", "u"}}
  \cup {BaseCall(n, ListWires(<<0, NWires - 1>>), Tensor(<<1, 1>>, <<1>>), <<>>, FALSE) :
          n \in {"cu1", "cp", "cr", "cphase"}}
  \cup {BaseCall("rz", ListWires(<<1>>), Tensor(<<Bsz, 1>>, [b \in 1..Bsz |-> b]), <<>>, TRUE)}
  \cup {BaseCall("cnot", IntWire(1), NoParams, <<>>, FALSE),
        BaseCall("hadamard", ListWires(<<0, 1>>), NoParams, <<>>, FALSE)}

NamedCalls == {Call(b, FALSE, FALSE, m) : b \in NamedBases, m \in Methods}

\* a density device holding |psi><psi| and a statevector device holding psi
InitDensity ==
  /\ \E st \in CallStates :
       /\ q_device = NewDevice(Outer(st), FALSE)
       /\ q_device2 = NewDevice(st, FALSE)
  /\ parent_graph = NewGraph
  /\ parent_graph2 = NewGraph
  /\ hist = <<>>

\* the devices and graphs a named call left, r on the density device and r2
\* on the statevector device, and the call added to the history
RecordNamed(c, r, r2) ==
  /\ q_device' = r.q_device
  /\ parent_graph' = r.parent_graph
  /\ q_device2' = r2.q_device
  /\ parent_graph2' = r2.parent_graph
  /\ hist' = Append(hist, [kind |-> "gate", call |-> c,
                           pre |-> q_device.states, pre2 |-> q_device2.states,
                           outcome |-> r.outcome, outcome2 |-> r2.outcome])

\* one gate looked up by name in each registry and called with the same
\* arguments: on the density device and on the statevector device
DispatchByName ==
  /\ hist = <<>>
  /\ \E c \in NamedCalls :
       RecordNamed(c, density_call_by_name(c.base.name, c, q_device, parent_graph),
                   call_by_name(c.base.name, c, q_device2, parent_graph2))

NextDensity == DispatchByName

SpecDensity == InitDensity /\ [][NextDensity]_vars

(***************************************************************************)
(* apply_unitary_einsum on devices as wide as the index alphabet, followed *)
(* on the shapes of its tensors.                                           *)
(***************************************************************************)
\* a tensor of the given shape whose entries are not held
ShapeOnly(shape) == [shape |-> shape, data |-> <<>>]

IndexWires == (Len(ABC) - 5)..MaxIndexWires

\* wire lists of one, two and three wires of an n-wire device
IndexWireLists(n) == {<<0>>, <<n - 1>>, <<0, 1>>, <<n - 1, 0>>, <<1, n - 1, 0>>}

\* a device of 21 and more wires, batch 1 or Bsz
InitIndices ==
  /\ \E n \in IndexWires, B \in {1, Bsz} :
       /\ q_device = NewDevice(ShapeOnly(<<B>> \o [j \in 1..n |-> 2]), FALSE)
       /\ q_device2 = q_device
  /\ parent_graph = NewGraph
  /\ parent_graph2 = NewGraph
  /\ hist = <<>>

\* apply_unitary_einsum called with a matrix, or a batch of matrices, for
\* the listed wires
ApplyWide ==
  /\ hist = <<>>
  /\ \E wires \in IndexWireLists(Len(q_device.states.shape) - 1), batched \in BOOLEAN :
       LET N == Pow2(Len(wires))
           mat_shape == IF batched THEN <<q_device.states.shape[1], N, N>> ELSE <<N, N>>
           r == apply_unitary_einsum_shape(q_device.states.shape, mat_shape, wires)
       IN  /\ q_device' = [q_device EXCEPT !.states = ShapeOnly(r.shape)]
           /\ hist' = Append(hist, [kind |-> "wide", wires |-> wires,
                                    mat_shape |-> mat_shape,
                                    pre |-> q_device.states,
                                    indices |-> r.indices, outcome |-> r.outcome])
           /\ UNCHANGED <<q_device2, parent_graph, parent_graph2>>

NextIndices == ApplyWide

SpecIndices == InitIndices /\ [][NextIndices]_vars

(***************************************************************************)
(* Properties.                                                             *)
(***************************************************************************)
\* the state left by step i of the history
Post(i) == IF i = Len(hist) THEN q_device.states ELSE hist[i + 1].pre

\* bit w of the row position x: wire 0 is the most significant
Bit(x, w) == (x \div Pow2(NWires - 1 - w)) % 2

\* the amplitude of basis state x in batch row b
Amp(states, b, x) == states.data[b * NStates + x + 1]

Rows == 0..(Bsz - 1)
Basis == 0..(NStates - 1)

ApplyFn(fn, state, mat, wires) ==
  IF fn = "einsum" THEN apply_unitary_einsum(state, mat, wires)
  ELSE apply_unitary_bmm(state, mat, wires)

\* C1: on every state, matrix (unbatched or batched) and ordered wire list
\* that was applied, apply_unitary_einsum and apply_unitary_bmm return the
\* same tensor: the same shape and the same amplitude at every index; the
\* state the application left is that tensor.
EinsumEqualsBmm ==
  \A i \in DOMAIN hist :
     hist[i].kind = "apply" =>
       LET e == apply_unitary_einsum(hist[i].pre, hist[i].matrix, hist[i].wires)
           m == apply_unitary_bmm(hist[i].pre, hist[i].matrix, hist[i].wires)
       IN  /\ e.shape = m.shape
           /\ \A q \in DOMAIN e.data : e.data[q] = m.data[q]
           /\ Post(i) = e

\* a batched matrix applied by bmm to the generic state on two wires listed
\* in descending order, and the state changed
EinsumEqualsBmmWitness ==
  /\ Len(hist) = 1
  /\ hist[1].kind = "apply"
  /\ hist[1].fn = "bmm"
  /\ hist[1].wires = <<NWires - 1, 0>>
  /\ Len(hist[1].matrix.shape) = 3
  /\ hist[1].pre = GenericState
  /\ q_device.states # hist[1].pre

\* the state with 1 added to the amplitude at position p
Perturb(state, p) ==
  Tensor(state.shape,
         [i \in 1..Len(state.data) |->
            IF i = p THEN CAdd(state.data[i], One) ELSE state.data[i]])

\* positions p and q (1-based, in the flattened state) lie in the same batch
\* row and agree on every wire outside W
SameFrame(p, q, W) ==
  /\ (p - 1) \div NStates = (q - 1) \div NStates
  /\ \A w \in Wires \ W : Bit((p - 1) % NStates, w) = Bit((q - 1) % NStates, w)

\* C3: an application to wires W keeps the shape of the state, and the
\* output amplitude at a position does not change when an input amplitude is
\* changed at a position of another batch row or one that differs from it on
\* a wire outside W.
ApplyIsLocal ==
  \A i \in DOMAIN hist :
     hist[i].kind = "apply" =>
       LET h == hist[i]
           W == SeqToSet(h.wires)
           out == Post(i)
       IN  /\ out.shape = h.pre.shape
           /\ out = ApplyFn(h.fn, h.pre, h.matrix, h.wires)
           /\ \A p \in DOMAIN h.pre.data :
                LET out2 == ApplyFn(h.fn, Perturb(h.pre, p), h.matrix, h.wires).data
                IN  \A q \in DOMAIN out.data :
                       ~SameFrame(p, q, W) => out2[q] = out.data[q]

\* an unbatched matrix applied to the middle wire alone: positions that
\* differ on the other wires exist, and the state changed
ApplyIsLocalWitness ==
  /\ Len(hist) = 1
  /\ hist[1].kind = "apply"
  /\ hist[1].wires = <<1>>
  /\ Len(hist[1].matrix.shape) = 2
  /\ hist[1].pre = SuperState
  /\ q_device.states # hist[1].pre
  /\ \E p, q \in DOMAIN hist[1].pre.data : ~SameFrame(p, q, {1})

IsGate(h) == h.kind = "gate"
IsImmediate(h) == h.kind = "gate" /\ ~h.call.static
IsStatic(h) == h.kind = "gate" /\ h.call.static

\* basis state x with bit t flipped when bit c is 1
CnotImage(x, c, t) ==
  IF Bit(x, c) = 0 THEN x
  ELSE IF Bit(x, t) = 0 THEN x + Pow2(NWires - 1 - t) ELSE x - Pow2(NWires - 1 - t)

\* C2: the wire list is used in the order given: an immediate cnot on wires
\* [c, t], for c < t and for c > t, succeeds and moves the amplitude of every
\* basis state to the basis state with bit t flipped exactly when bit c is 1,
\* so the first listed wire is the control (the most significant bit of the
\* matrix index).
CnotPositional ==
  \A i \in DOMAIN hist :
     (/\ IsImmediate(hist[i])
      /\ hist[i].call.base.name = "cnot"
      /\ hist[i].call.base.wires.kind = "list"
      /\ Len(hist[i].call.base.wires.v) = 2) =>
       LET c == hist[i].call.base.wires.v[1]
           t == hist[i].call.base.wires.v[2]
       IN  /\ hist[i].outcome = "ok"
           /\ Post(i).shape = hist[i].pre.shape
           /\ \A b \in Rows, x \in Basis :
                Amp(Post(i), b, CnotImage(x, c, t)) = Amp(hist[i].pre, b, x)

\* cnot on [NWires-1, 0], control above target, on (|101> + i|000>)/sqrt(2):
\* the amplitude of |101> is now on |001>, where [0, NWires-1] would have put
\* it on |100>
CnotPositionalWitness ==
  /\ Len(hist) = 1
  /\ IsImmediate(hist[1])
  /\ hist[1].call.base.name = "cnot"
  /\ hist[1].call.base.wires = ListWires(<<NWires - 1, 0>>)
  /\ hist[1].pre = SuperState
  /\ Amp(hist[1].pre, 0, 1) = Zero
  /\ Amp(q_device.states, 0, 1) # Zero
  /\ Amp(q_device.states, 0, NStates \div 2) = Zero

Normalized(states) == \A b \in Rows : Energy(states, b) = One

\* C4: from a normalized state, after any sequence of immediate applications
\* of registry gates other than qubitunitaryfast (and no reset), every batch
\* row of the device state has squared-magnitude sum 1.
NormPreserved ==
  (/\ hist # <<>>
   /\ Normalized(hist[1].pre)
   /\ \A i \in DOMAIN hist :
        IsImmediate(hist[i]) /\ hist[i].call.base.name # "qubitunitaryfast")
  => Normalized(q_device.states)

\* the matrix an immediate call resolves, before the inverse flag
ResolvedMatrix(c) ==
  resolve_matrix(c.base.name, normalize_params(c.base.name, c.base.params),
                 c.base.n_wires)

\* m is the conjugate of m0 with its last two axes transposed
IsConjTranspose(m, m0) ==
  /\ m.shape = m0.shape
  /\ LET n == m0.shape[Len(m0.shape)]
     IN  \A q \in DOMAIN m0.data :
            LET blk == (q - 1) \div (n * n)
                r == ((q - 1) \div n) % n
                c == (q - 1) % n
            IN  m.data[blk * n * n + c * n + r + 1] = CConj(m0.data[q])

\* C5: a gate followed by the same call with the inverse flag toggled
\* returns the device state to the state before the pair, for every gate
\* other than the unchecked qubitunitaryfast; and the matrix of an inverse
\* call is the conjugate transpose of the resolved matrix, 2-D or 3-D.
InverseRoundTrip ==
  /\ (/\ Len(hist) = 2
      /\ IsImmediate(hist[1]) /\ IsImmediate(hist[2])
      /\ hist[1].outcome = "ok" /\ hist[2].outcome = "ok"
      /\ hist[2].call.base = hist[1].call.base
      /\ hist[2].call.inverse # hist[1].call.inverse
      /\ hist[1].call.base.name # "qubitunitaryfast")
     => q_device.states = hist[1].pre
  /\ \A i \in DOMAIN hist :
       (IsImmediate(hist[i]) /\ ~IsErr(ResolvedMatrix(hist[i].call))) =>
         IsConjTranspose(inverse_matrix(ResolvedMatrix(hist[i].call)),
                         ResolvedMatrix(hist[i].call))

\* the static and all gate steps of the history, in call order
StaticSteps == SelectSeq(hist, IsStatic)
GateSteps == SelectSeq(hist, IsGate)

\* the params of a call as the dispatcher hands them on: a number becomes a
\* 1 x 1 tensor, a 1-D tensor gets a trailing axis, None stays None
HandedParams(c) ==
  LET p == c.base.params
  IN  IF IsNone(p) THEN NoParams
      ELSE IF c.base.name \in ExplicitNames /\ Len(p.shape) = 2
           THEN Tensor(<<1>> \o p.shape, p.data)
      ELSE IF c.base.name \notin ExplicitNames /\ Len(p.shape) = 0
           THEN Tensor(<<1, 1>>, p.data)
      ELSE IF c.base.name \notin ExplicitNames /\ Len(p.shape) = 1
           THEN Tensor(p.shape \o <<1>>, p.data)
      ELSE p

\* C6: a static dispatch appends one record (name, wires as a list, the
\* normalized params, n_wires, inverse) to the graph's log and leaves
\* q_device.states as it was; the log holds the static calls in call order,
\* and after static calls only the state is the initial one.
StaticOnlyLogs ==
  /\ Len(parent_graph.func_list) = Len(StaticSteps)
  /\ \A i \in DOMAIN StaticSteps :
       parent_graph.func_list[i] =
         [name |-> StaticSteps[i].call.base.name,
          wires |-> StaticSteps[i].call.base.wires.v,
          params |-> HandedParams(StaticSteps[i].call),
          n_wires |-> StaticSteps[i].call.base.n_wires,
          inverse |-> StaticSteps[i].call.inverse]
  /\ \A i \in DOMAIN hist : IsStatic(hist[i]) => Post(i) = hist[i].pre
  /\ (hist # <<>> /\ \A i \in DOMAIN hist : IsStatic(hist[i]))
       => q_device.states = hist[1].pre

\* two static calls on the superposition, rx with a number as its angle and
\* then an inverse cnot: two records in that order, the state untouched
StaticOnlyLogsWitness ==
  /\ Len(hist) = 2
  /\ IsStatic(hist[1]) /\ IsStatic(hist[2])
  /\ hist[1].call.base.name = "rx"
  /\ hist[2].call.base.name = "cnot" /\ hist[2].call.inverse
  /\ Len(parent_graph.func_list) = 2
  /\ parent_graph.func_list[1].params.shape = <<1, 1>>
  /\ parent_graph.func_list[2].name = "cnot"
  /\ q_device.states = SuperState

\* C7: on a device whose record_op flag is set every dispatched gate call,
\* static or immediate, appends one record with exactly the fields name,
\* wires, params, inverse and trainable to op_history, in call order; on a
\* device whose flag is clear op_history is never modified.
OpHistoryRecords ==
  /\ q_device.record_op /\ ~q_device2.record_op
  /\ Len(q_device.op_history) = Len(GateSteps)
  /\ \A i \in DOMAIN GateSteps :
       LET r == q_device.op_history[i]
           c == GateSteps[i].call
       IN  /\ DOMAIN r = {"name", "wires", "params", "inverse", "trainable"}
           /\ r.name = c.base.name
           /\ r.wires.data = c.base.wires.v
           /\ r.params.data = c.base.params.data
           /\ IsNone(r.params) <=> IsNone(c.base.params)
           /\ r.inverse = c.inverse
           /\ r.trainable = (~IsNone(c.base.params) /\ c.base.requires_grad)
  /\ q_device2.op_history = <<>>

\* a static rz with trainable batched angles and then an immediate call that
\* fails its dimension check: both are in op_history, in that order
OpHistoryRecordsWitness ==
  /\ Len(hist) = 2
  /\ IsStatic(hist[1]) /\ hist[1].call.base.name = "rz"
  /\ IsImmediate(hist[2]) /\ hist[2].outcome = "AssertionError"
  /\ Len(q_device.op_history) = 2
  /\ q_device.op_history[1].trainable
  /\ q_device.op_history[2].name = hist[2].call.base.name
  /\ q_device2.op_history = <<>>

\* C8: after any sequence of calls the device that records and the device
\* that does not hold the same state, and their graphs the same log.
RecordOpInvisible ==
  /\ q_device.record_op # q_device2.record_op
  /\ q_device.states = q_device2.states
  /\ parent_graph = parent_graph2

\* an immediate gate that changed the state and a static call, recorded on
\* one device only
RecordOpInvisibleWitness ==
  /\ Len(hist) = 2
  /\ IsImmediate(hist[1]) /\ hist[1].outcome = "ok"
  /\ IsStatic(hist[2])
  /\ q_device.states # hist[1].pre
  /\ Len(parent_graph.func_list) = 1
  /\ Len(q_device.op_history) = 2
  /\ Len(q_device2.op_history) = 0

\* C9: an immediate call whose resolved matrix has a
\* last dimension other than 2^len(wires) ends in the assertion's error, and
\* q_device.states is what it was before the call.
MismatchRejected ==
  \A i \in DOMAIN hist :
     (/\ IsImmediate(hist[i])
      /\ ~IsErr(ResolvedMatrix(hist[i].call))
      /\ LET m == ResolvedMatrix(hist[i].call)
         IN  m.shape[Len(m.shape)] # Pow2(Len(hist[i].call.base.wires.v)))
     => /\ hist[i].outcome = "AssertionError"
        /\ Post(i) = hist[i].pre

\* a gate that changed the state, then multicnot for 3 wires given 2 wires
\* through einsum: rejected, the state is the one the first gate left
MismatchRejectedWitness ==
  /\ Len(hist) = 2
  /\ IsImmediate(hist[1]) /\ hist[1].outcome = "ok"
  /\ hist[2].pre # hist[1].pre
  /\ IsImmediate(hist[2])
  /\ hist[2].call.base.name = "multicnot"
  /\ hist[2].call.method = "einsum"
  /\ hist[2].outcome = "AssertionError"
  /\ q_device.states = hist[2].pre

\* C10: after a reset that returned, every amplitude whose index has bit w
\* equal to 1 for a wire w among those given (an int, or a list of distinct
\* wires in any order) is zero; where every given wire has bit 0 an
\* amplitude is zero only if it was zero before, so wires that were not
\* given are not zeroed.
ResetZeroesGiven ==
  \A i \in DOMAIN hist :
     (hist[i].kind = "reset" /\ hist[i].outcome = "ok") =>
       LET W == SeqToSet(hist[i].wires.v)
       IN  \A b \in Rows, x \in Basis :
              IF \E w \in W : Bit(x, w) = 1
              THEN Amp(Post(i), b, x) = Zero
              ELSE (Amp(Post(i), b, x) = Zero) <=> (Amp(hist[i].pre, b, x) = Zero)

IsReset(h) == h.kind = "reset"

\* C11: reset of one wire w (an int or a one-element list) that returned,
\* followed by the same reset, leaves the device in the state the first
\* reset left.
ResetIdempotent ==
  (/\ Len(hist) = 2
   /\ IsReset(hist[1]) /\ IsReset(hist[2])
   /\ Len(hist[1].wires.v) = 1
   /\ hist[2].wires.v = hist[1].wires.v
   /\ hist[1].outcome = "ok")
  => /\ hist[2].outcome = "ok"
     /\ q_device.states = hist[2].pre

\* wire 0 of (|101> + i|000>)/sqrt(2) reset twice: the first reset changed
\* the state, the second did not
ResetIdempotentWitness ==
  /\ Len(hist) = 2
  /\ IsReset(hist[1]) /\ IsReset(hist[2])
  /\ hist[1].wires = IntWire(0) /\ hist[2].wires = IntWire(0)
  /\ hist[1].pre = SuperState
  /\ hist[2].pre # hist[1].pre
  /\ hist[1].outcome = "ok" /\ hist[2].outcome = "ok"
  /\ q_device.states = hist[2].pre

\* the state with the 1-slice of wire w zeroed
WireZeroed(states, w) ==
  Tensor(states.shape,
         [i \in 1..Len(states.data) |->
            IF Bit((i - 1) % NStates, w) = 1 THEN Zero ELSE states.data[i]])

\* C12: when zeroing the 1-slice of the target wire leaves a batch row of
\* zero total probability, reset ends in an error and the device does not
\* hold a state with an all-zero row.
DegenerateResetRaises ==
  \A i \in DOMAIN hist :
     (/\ IsReset(hist[i])
      /\ Len(hist[i].wires.v) = 1
      /\ \E b \in Rows : Energy(WireZeroed(hist[i].pre, hist[i].wires.v[1]), b) = Zero)
     => /\ hist[i].outcome = "raised"
        /\ \A b \in Rows : Energy(Post(i), b) # Zero

\* basis state x with the bit of the last listed wire flipped when the bits of
\* all other listed wires are 1
MulticnotImage(x, w) ==
  LET t == w[Len(w)]
  IN  IF \E j \in 1..(Len(w) - 1) : Bit(x, w[j]) = 0 THEN x
      ELSE IF Bit(x, t) = 0 THEN x + Pow2(NWires - 1 - t) ELSE x - Pow2(NWires - 1 - t)

\* C14: multicnot_matrix(n) is the 2^n x 2^n identity with its last two
\* basis states swapped, for n = 1 .. NWires + 1; an immediate multicnot told
\* n_wires = n on n listed wires succeeds and flips the last listed wire
\* exactly when all other listed wires are 1.
MulticnotSwapsLast ==
  /\ \A n \in 1..(NWires + 1) :
       LET N == Pow2(n)
           m == multicnot_matrix(n)
           image(c) == IF c = N - 1 THEN N - 2 ELSE IF c = N - 2 THEN N - 1 ELSE c
       IN  /\ m.shape = <<N, N>>
           /\ \A r, c \in 0..(N - 1) :
                Elem(m, <<r, c>>) = IF r = image(c) THEN One ELSE Zero
  /\ \A i \in DOMAIN hist :
       (/\ IsImmediate(hist[i])
        /\ hist[i].call.base.name = "multicnot"
        /\ hist[i].call.base.n_wires = <<Len(hist[i].call.base.wires.v)>>) =>
         /\ hist[i].outcome = "ok"
         /\ \A b \in Rows, x \in Basis :
              Amp(Post(i), b, MulticnotImage(x, hist[i].call.base.wires.v))
                = Amp(hist[i].pre, b, x)

\* multicnot on [NWires-1, 0, 1] of (|101> + i|000>)/sqrt(2): both controls of
\* |101> are 1, so its amplitude is now on |111>
MulticnotSwapsLastWitness ==
  /\ Len(hist) = 1
  /\ IsImmediate(hist[1])
  /\ hist[1].call.base.name = "multicnot"
  /\ hist[1].call.base.wires = ListWires(<<NWires - 1, 0, 1>>)
  /\ hist[1].pre = SuperState
  /\ Amp(hist[1].pre, 0, NStates - 1) = Zero
  /\ Amp(q_device.states, 0, NStates - 1) # Zero

\* the operator handed to step h is square
SquareParams(h) ==
  LET shape == h.call.base.params.shape
  IN  shape[Len(shape)] = shape[Len(shape) - 1]

\* the outcomes of a validation error that says what the operator must be
SquareErrors == {"AssertionError: Operator must be a square matrix."}
UnitaryErrors == {"AssertionError: Operator must be unitary."}

\* C15: an immediate qubitunitary handed a non-square matrix ends in a
\* validation error saying the operator must be square, one handed a square
\* matrix that is not unitary ends in a validation error saying it must be
\* unitary, and in both cases the device state is the one before the call.
QubitunitaryValidates ==
  \A i \in DOMAIN hist :
     (IsImmediate(hist[i]) /\ hist[i].call.base.name = "qubitunitary") =>
       LET h == hist[i]
       IN  /\ ~SquareParams(h) =>
                h.outcome \in SquareErrors /\ Post(i) = h.pre
           /\ (SquareParams(h) /\ ~IsUnitary(h.call.base.params)) =>
                h.outcome \in UnitaryErrors /\ Post(i) = h.pre

\* the position in the operator of basis state x: the bits of the listed
\* wires, the first listed wire the most significant
SubIndex(x, w) ==
  Dot([j \in 1..Len(w) |-> Bit(x, w[j])], [j \in 1..Len(w) |-> Pow2(Len(w) - j)], 1)

\* entry (r, c) of the operator for batch row b
OperatorEntry(m, b, r, c) ==
  IF Len(m.shape) = 3 THEN Elem(m, <<b, r, c>>) ELSE Elem(m, <<r, c>>)

\* the amplitude at (b, x) of the operator m applied as given on the wires w
AppliedAmp(pre, m, w, b, x) ==
  CSum([y1 \in 1..NStates |->
          IF \A v \in Wires \ SeqToSet(w) : Bit(y1 - 1, v) = Bit(x, v)
          THEN CMul(OperatorEntry(m, b, SubIndex(x, w), SubIndex(y1 - 1, w)),
                    Amp(pre, b, y1 - 1))
          ELSE Zero])

\* step h is an immediate, uninverted qubitunitaryfast whose operator has
\* 2^len(wires) as its last dimension
IsFast(h) ==
  /\ IsImmediate(h)
  /\ ~h.call.inverse
  /\ h.call.base.name = "qubitunitaryfast"
  /\ dimension_ok(h.call.base.params, h.call.base.wires.v)

\* the operator is one square matrix or a batch of them, one per device row
SquareOperator(h) ==
  /\ SquareParams(h)
  /\ Len(h.call.base.params.shape) = 3 => h.call.base.params.shape[1] = Bsz

AppliedAsGiven(i) ==
  /\ hist[i].outcome = "ok"
  /\ Post(i).shape = hist[i].pre.shape
  /\ \A b \in Rows, x \in Basis :
       Amp(Post(i), b, x)
         = AppliedAmp(hist[i].pre, hist[i].call.base.params,
                      hist[i].call.base.wires.v, b, x)

\* C16 as stated: qubitunitaryfast applies any operator whose last dimension
\* is 2^len(wires) as given, without raising.
FastAppliesAnyFitting ==
  \A i \in DOMAIN hist : IsFast(hist[i]) => AppliedAsGiven(i)

\* C16: qubitunitaryfast validates nothing: a square operator (one matrix or
\* one per batch row) whose last dimension is 2^len(wires) is applied as
\* given, without raising, unitary or not; an operator that is not square
\* is not applied: the contraction raises and the state stays as it was.
FastAppliesSquare ==
  \A i \in DOMAIN hist :
     IsFast(hist[i]) =>
       /\ SquareOperator(hist[i]) => AppliedAsGiven(i)
       /\ ~SquareParams(hist[i]) =>
            hist[i].outcome = "RuntimeError" /\ Post(i) = hist[i].pre

\* [[1, i], [0, 2]] applied by qubitunitaryfast to the last wire of a
\* normalized state: the call succeeded and the state is no longer normalized
FastAppliesSquareWitness ==
  /\ Len(hist) = 1
  /\ IsFast(hist[1])
  /\ hist[1].call.base.params = NonUnitary2
  /\ ~IsUnitary(hist[1].call.base.params)
  /\ hist[1].pre = SuperState
  /\ Normalized(hist[1].pre)
  /\ hist[1].outcome = "ok"
  /\ ~Normalized(q_device.states)

\* step h called a gate on one or two wires under a name that both
\* registries hold
IsSmallGate(h) ==
  /\ h.kind = "gate"
  /\ Len(h.call.base.wires.v) <= 2
  /\ h.call.base.name \in DOMAIN density_func_name_dict
  /\ h.call.base.name \in DOMAIN func_name_dict

\* C13: for every one- and two-wire gate, wire list and method, the density
\* path and the statevector path both succeed, and the density path takes
\* |psi><psi| to |psi'><psi'|, psi' being what the statevector path makes
\* of psi.
DensityMatchesStatevector ==
  \A i \in DOMAIN hist :
     IsSmallGate(hist[i]) =>
       /\ hist[i].outcome2 = "ok"
       /\ hist[i].outcome = "ok"
       /\ hist[i].pre = Outer(hist[i].pre2)
       /\ q_device.states = Outer(q_device2.states)

\* the aliases and the canonical name each must resolve to
CanonicalOf ==
  [h |-> "hadamard", x |-> "paulix", cx |-> "cnot", ccx |-> "toffoli",
   u |-> "u3", cp |-> "cu1", cr |-> "cu1", cphase |-> "cu1"]

\* C17: a call made under an alias ends as the same call made under the
\* canonical name does, with the same outcome and the same device, in the
\* statevector registry and in the density-matrix registry.
AliasesResolve ==
  \A i \in DOMAIN hist :
     (hist[i].kind = "gate" /\ hist[i].call.base.name \in DOMAIN CanonicalOf) =>
       LET c == hist[i].call
           canon == [c EXCEPT !.base.name = CanonicalOf[c.base.name]]
           sv == gate(canon, NewDevice(hist[i].pre2, FALSE), NewGraph)
           dm == density_gate(canon, NewDevice(hist[i].pre, FALSE), NewGraph)
       IN  /\ hist[i].outcome2 = sv.outcome
           /\ q_device2 = sv.q_device
           /\ hist[i].outcome = dm.outcome
           /\ q_device = dm.q_device

\* step h handed angles to a gate in immediate mode
IsAngleCall(h) ==
  /\ IsImmediate(h)
  /\ h.call.base.name \in {"rx", "ry", "rz", "u3", "cu1", "cu2", "xxminyy"}
  /\ ~IsNone(h.call.base.params)

\* C18: the parameters a builder receives from a 0-D input have shape
\* (1, 1) and from a 1-D input of length p shape (1, p); u3 handed a 1-D
\* tensor of its 3 angles receives shape (1, 3) and is applied.
ParamsPromoted ==
  \A i \in DOMAIN hist :
     (IsAngleCall(hist[i]) /\ Dim(hist[i].call.base.params) <= 1) =>
       LET h == hist[i]
           received == normalize_params(h.call.base.name, h.call.base.params)
       IN  /\ received.shape = <<1, Len(h.call.base.params.data)>>
           /\ (h.call.base.name = "u3" /\ Len(h.call.base.params.data) = 3) =>
                h.outcome = "ok"

\* row b (0-based) of a (B, p) tensor as a (1, p) tensor
ParamRow(params, b) ==
  Tensor(<<1, params.shape[2]>>,
         [j \in 1..params.shape[2] |-> params.data[b * params.shape[2] + j]])

\* matrix b (0-based) of a (B, n, n) tensor
MatrixRow(m, b) ==
  Tensor(<<m.shape[2], m.shape[3]>>,
         [j \in 1..(m.shape[2] * m.shape[3]) |-> m.data[b * m.shape[2] * m.shape[3] + j]])

\* C20: a builder handed parameters of shape (B, p) succeeds; for B >= 2 it
\* returns a (B, 2^k, 2^k) tensor whose matrix b is the gate of parameter
\* row b, for B = 1 the (2^k, 2^k) matrix; and the call is applied.
BatchedBuilders ==
  \A i \in DOMAIN hist :
     (IsAngleCall(hist[i]) /\ Dim(hist[i].call.base.params) = 2) =>
       LET h == hist[i]
           name == h.call.base.name
           params == h.call.base.params
           B == params.shape[1]
           N == Pow2(Len(h.call.base.wires.v))
           m == mat_of_params(name, params)
       IN  /\ ~IsErr(m)
           /\ h.outcome = "ok"
           /\ B = 1 => m.shape = <<N, N>>
           /\ B >= 2 =>
                /\ m.shape = <<B, N, N>>
                /\ \A b \in 0..(B - 1) :
                     MatrixRow(m, b) = mat_of_params(name, ParamRow(params, b))

\* the letters the contraction of step h needs: one per wire, one per
\* listed wire and one for the batch
LettersNeeded(h) == (Len(h.pre.shape) - 1) + Len(h.wires) + 1

DensityMatrixOf(c) ==
  resolve_matrix(density_func_name_dict[c.base.name],
                 density_normalize_params(c.base.name, c.base.params),
                 c.base.n_wires)

\* U rho U^dagger as two chained contractions: the matrix on the ket axes
\* of density, then its conjugate transpose on the bra axes of what the
\* first contraction returned
ChainedContractions(density, mat, wires) ==
  LET k == Len(wires)
      n_qubit == (Dim(density) - 1) \div 2
      total_wires == Len(density.shape) - 1
      batched == Len(mat.shape) > 2
      ext == IF batched THEN <<mat.shape[1]>> ELSE <<>>
      view == ext \o [j \in 1..(2 * k) |-> 2]
      dagger == IF batched THEN Conj(Permute(mat, <<0, 2, 1>>))
                ELSE Conj(Permute(mat, <<1, 0>>))
      batch == <<At(ABC, Len(ABC) - 1)>>
      lead == IF batched THEN batch ELSE <<>>
      all == Slice(ABC, 0, total_wires)
      new == Slice(ABC, total_wires, total_wires + k)
      ket == [j \in 1..k |-> At(ABC, wires[j])]
      bra == [j \in 1..k |-> At(ABC, wires[j] + n_qubit)]
      first == Einsum(lead \o new \o ket, batch \o all,
                      batch \o ReplaceAll(all, ket, new), Reshape(mat, view), density)
  IN  Einsum(batch \o all, lead \o bra \o new,
             batch \o ReplaceAll(all, bra, new), first, Reshape(dagger, view))

\* step h called a gate of the density registry with method 'einsum' and a
\* matrix was built for it
IsDensityEinsum(h) ==
  /\ h.kind = "gate"
  /\ h.call.method = "einsum"
  /\ h.call.base.name \in DOMAIN density_func_name_dict
  /\ ~IsErr(DensityMatrixOf(h.call))

\* C21: apply_unitary_density_einsum returns U rho U^dagger for any number
\* k >= 1 of target wires: the bra-side contraction is applied to the tensor
\* the ket-side contraction returned, with the conjugate transpose of the
\* same matrix.
DensityEinsumChained ==
  \A i \in DOMAIN hist :
     (IsDensityEinsum(hist[i]) /\ Len(DensityMatrixOf(hist[i].call).shape) = 2) =>
       /\ hist[i].outcome = "ok"
       /\ q_device.states =
            ChainedContractions(hist[i].pre, DensityMatrixOf(hist[i].call),
                                normalize_wires(hist[i].call.base.wires))

\* the matrix gate_wrapper builds for call c
BuiltMatrix(c) ==
  resolve_matrix(c.base.name, normalize_params(c.base.name, c.base.params), c.base.n_wires)

\* step h is an immediate, uninverted 'bmm' call whose matrix comes from
\* one parameter: an angle gate handed at most one row of angles, or an
\* explicit-unitary gate handed one 2-D unitary matrix of the wires' size
IsSingleMatrixBmm(h) ==
  /\ IsImmediate(h)
  /\ ~h.call.inverse
  /\ h.call.method = "bmm"
  /\ ~IsNone(h.call.base.params)
  /\ \/ /\ IsAngleCall(h)
        /\ normalize_params(h.call.base.name, h.call.base.params).shape[1] = 1
     \/ /\ h.call.base.name \in ExplicitNames
        /\ Dim(h.call.base.params) = 2
        /\ SquareParams(h)
        /\ IsUnitary(h.call.base.params)
        /\ dimension_ok(h.call.base.params, h.call.base.wires.v)

\* the one matrix of step h: the supplied one, or the one the builder made
SingleMatrix(h) ==
  IF h.call.base.name \in ExplicitNames THEN h.call.base.params
  ELSE BuiltMatrix(h.call)

\* C22: a matrix that comes from a single parameter is applied by bmm to
\* every batch row of a state of batch size B > 1, for every gate, the
\* explicit-unitary gates handed one 2-D matrix included.
SingleMatrixBroadcast ==
  \A i \in DOMAIN hist :
     (IsSingleMatrixBmm(hist[i]) /\ hist[i].pre.shape[1] > 1) =>
       /\ hist[i].outcome = "ok"
       /\ Post(i).shape = hist[i].pre.shape
       /\ \A b \in Rows, x \in Basis :
            Amp(Post(i), b, x)
              = AppliedAmp(hist[i].pre, SingleMatrix(hist[i]),
                           hist[i].call.base.wires.v, b, x)

\* the batch row of position p (1-based) of a tensor of B rows
RowOf(t, p) == (p - 1) \div (Len(t.data) \div t.shape[1])

\* the tensors a and b agree on every batch row but row r
SameOffRow(a, b, r) ==
  /\ a.shape = b.shape
  /\ \A q \in DOMAIN a.data : RowOf(a, q) # r => a.data[q] = b.data[q]

\* the state the loop of reset leaves, before normalization
Zeroing(state, wires) == reset_loop(state, Range0(Dim(state)), normalize_wires(wires))

\* C23: batch row b of what a contraction or the zeroing of reset returns
\* depends only on batch row b of the input state and, for a batched
\* matrix, on matrix b: changing an amplitude of another row of the state,
\* or an entry of another matrix of the batch, leaves row b as it was.
BatchRowsIndependent ==
  \A i \in DOMAIN hist :
     LET h == hist[i]
     IN  /\ h.kind = "apply" =>
              /\ Post(i) = ApplyFn(h.fn, h.pre, h.matrix, h.wires)
              /\ \A p \in DOMAIN h.pre.data :
                   SameOffRow(ApplyFn(h.fn, Perturb(h.pre, p), h.matrix, h.wires),
                              Post(i), RowOf(h.pre, p))
              /\ Len(h.matrix.shape) = 3 =>
                   \A p \in DOMAIN h.matrix.data :
                      SameOffRow(ApplyFn(h.fn, h.pre, Perturb(h.matrix, p), h.wires),
                                 Post(i), RowOf(h.matrix, p))
         /\ h.kind = "reset" =>
              /\ h.outcome = "ok" => Post(i) = normalize_statevector(Zeroing(h.pre, h.wires))
              /\ \A p \in DOMAIN h.pre.data :
                   SameOffRow(Zeroing(Perturb(h.pre, p), h.wires),
                              Zeroing(h.pre, h.wires), RowOf(h.pre, p))

\* a batched matrix applied by einsum to two wires of the generic state of
\* Bsz rows: every row changed
BatchRowsIndependentWitness ==
  /\ Len(hist) = 1
  /\ hist[1].kind = "apply"
  /\ hist[1].fn = "einsum"
  /\ Len(hist[1].matrix.shape) = 3
  /\ Len(hist[1].wires) = 2
  /\ hist[1].pre = GenericState
  /\ hist[1].pre.shape[1] = Bsz
  /\ \A b \in Rows : \E x \in Basis : Amp(q_device.states, b, x) # Amp(hist[1].pre, b, x)

\* reset of the first wire of the uniform superposition: the zeroing
\* cleared amplitudes in every row
BatchRowsZeroingWitness ==
  /\ Len(hist) = 1
  /\ hist[1].kind = "reset"
  /\ hist[1].pre = SuperState
  /\ \A b \in Rows : \E x \in Basis :
       Amp(hist[1].pre, b, x) # Zero /\ Amp(Zeroing(hist[1].pre, hist[1].wires), b, x) = Zero

\* step h called, by either method, a gate of the density registry whose
\* matrix has a last dimension other than 2^len(wires)
IsDensityMismatch(h) ==
  /\ h.kind = "gate"
  /\ ~h.call.static
  /\ h.call.base.name \in DOMAIN density_func_name_dict
  /\ ~IsErr(DensityMatrixOf(h.call))
  /\ ~dimension_ok(DensityMatrixOf(h.call), normalize_wires(h.call.base.wires))

\* C24: a density call whose resolved matrix has a last dimension other than
\* 2^len(wires) ends in an error and leaves the density state as it was,
\* with 'bmm' and with 'einsum'.
DensityMismatchRejected ==
  \A i \in DOMAIN hist :
     IsDensityMismatch(hist[i]) =>
       /\ hist[i].outcome # "ok"
       /\ q_device.states = hist[i].pre

\* step h is a gate call that took effect: it was applied to the state or
\* appended to the deferred log
TookEffect(h) == h.kind = "gate" /\ h.outcome = "ok"

EffectiveSteps == SelectSeq(hist, TookEffect)

AppliedMatrix(c) == IF c.inverse THEN inverse_matrix(BuiltMatrix(c)) ELSE BuiltMatrix(c)

\* C26: an immediate call whose method is neither 'bmm' nor 'einsum' either
\* raises or applies the gate: it does not return normally with the gate
\* not applied.
UnknownMethodNotSilent ==
  \A i \in DOMAIN hist :
     (IsImmediate(hist[i]) /\ hist[i].call.method \notin {"bmm", "einsum"}) =>
       \/ hist[i].outcome # "ok"
       \/ Post(i) = apply_unitary_bmm(hist[i].pre, AppliedMatrix(hist[i].call),
                                      normalize_wires(hist[i].call.base.wires))

ArityNames == {"qft", "multicnot", "multixcnot"}

\* the call c made with n_wires = len(wires) on a device in state pre
WithArity(c, pre) ==
  gate([c EXCEPT !.base.n_wires = <<Len(normalize_wires(c.base.wires))>>],
       NewDevice(pre, TRUE), NewGraph)

\* C27: an immediate call of a gate built from an arity that omits n_wires
\* ends as the same call with n_wires = len(wires) does: the same outcome
\* and the same state.
ArityHintOptional ==
  \A i \in DOMAIN hist :
     (/\ IsImmediate(hist[i])
      /\ hist[i].call.base.name \in ArityNames
      /\ hist[i].call.base.n_wires = <<>>) =>
       /\ hist[i].outcome = WithArity(hist[i].call, hist[i].pre).outcome
       /\ Post(i) = WithArity(hist[i].call, hist[i].pre).q_device.states

\* the phase exp(1j * params) of a globalphase call
PhaseOf(c) == ExpI(2 * c.base.params.data[1])

\* C28: an immediate globalphase on one or more wires passes the dimension
\* assertion and multiplies every amplitude by the same phase of modulus 1,
\* so every batch row keeps its norm.
GlobalPhaseApplied ==
  \A i \in DOMAIN hist :
     (/\ IsImmediate(hist[i])
      /\ hist[i].call.base.name = "globalphase"
      /\ ~hist[i].call.inverse
      /\ Len(hist[i].call.base.wires.v) >= 1) =>
       /\ CAbs2(PhaseOf(hist[i].call)) = One
       /\ hist[i].outcome = "ok"
       /\ \A b \in Rows, x \in Basis :
            Amp(Post(i), b, x) = CMul(PhaseOf(hist[i].call), Amp(hist[i].pre, b, x))
       /\ \A b \in Rows : Energy(Post(i), b) = Energy(hist[i].pre, b)

\* the fixed gate with n - 1 controls and one target
FixedControlled == [n \in 2..5 |-> <<"cnot", "toffoli", "c3x", "c4x">>[n - 1]]

\* the call c made under the fixed gate's name, without n_wires, on a
\* device in state pre
FixedRoute(c, pre) ==
  gate([c EXCEPT !.base.name = FixedControlled[c.base.n_wires[1]], !.base.n_wires = <<>>],
       NewDevice(pre, TRUE), NewGraph)

\* step h is an immediate multicnot told n_wires = len(wires), n_wires >= 2
IsMulticnotOf(h) ==
  /\ IsImmediate(h)
  /\ h.call.base.name = "multicnot"
  /\ h.call.base.n_wires = <<Len(h.call.base.wires.v)>>
  /\ Len(h.call.base.wires.v) \in DOMAIN FixedControlled

\* C29: multicnot_matrix(2), (3), (4) and (5) are the cnot, toffoli, c3x and
\* c4x matrices of mat_dict, and multicnot told n_wires = n ends as the
\* fixed gate called on the same wires does: the same outcome and state.
FixedMatchesMulticnot ==
  /\ \A n \in DOMAIN FixedControlled :
       multicnot_matrix(n) = mat_dict(FixedControlled[n])
  /\ \A i \in DOMAIN hist :
       IsMulticnotOf(hist[i]) =>
         /\ hist[i].outcome = FixedRoute(hist[i].call, hist[i].pre).outcome
         /\ Post(i) = FixedRoute(hist[i].call, hist[i].pre).q_device.states

\* multicnot told n_wires = 3 on wires [0, 1, 2] of the generic state: the
\* call changed the state, and toffoli on the same wires makes the same
\* state of it
FixedMatchesMulticnotWitness ==
  /\ Len(hist) = 1
  /\ IsMulticnotOf(hist[1])
  /\ hist[1].call.base.wires = ListWires(<<0, 1, 2>>)
  /\ hist[1].pre = GenericState
  /\ hist[1].outcome = "ok"
  /\ q_device.states # hist[1].pre
  /\ FixedRoute(hist[1].call, hist[1].pre).q_device.states = q_device.states

\* the product of two matrices
MatMul(a, b) ==
  Tensor(<<a.shape[1], b.shape[2]>>,
    [i \in 1..(a.shape[1] * b.shape[2]) |->
       CSum([k \in 1..a.shape[2] |->
               CMul(Elem(a, <<(i - 1) \div b.shape[2], k - 1>>),
                    Elem(b, <<k - 1, (i - 1) % b.shape[2]>>))])])

\* the Kronecker product of two 2 x 2 matrices by its entries:
\* [2i + k, 2j + l] = a[i, j] * b[k, l]
KronEntries(a, b) ==
  Tensor(<<4, 4>>,
    [e \in 1..16 |->
       CMul(Elem(a, <<((e - 1) \div 4) \div 2, ((e - 1) % 4) \div 2>>),
            Elem(b, <<((e - 1) \div 4) % 2, ((e - 1) % 4) % 2>>))])

Block(entries) == Tensor(<<2, 2>>, entries)

\* kron(a,b) . CNOT . kron(rx,rz2) . CNOT . kron(c,d) . CNOT . kron(I,rz1)
\* for row b of the angles
Su4InOrder(params, b) ==
  LET CNOT == mat_dict("cnot")
      f1 == KronEntries(Block(su4_su2(params, b, 3)), Block(su4_su2(params, b, 6)))
      f3 == KronEntries(Block(su4_rx(params, b, 1)), Block(su4_rz(params, b, 2)))
      f5 == KronEntries(Block(su4_su2(params, b, 9)), Block(su4_su2(params, b, 12)))
      f7 == KronEntries(Eye(2), Block(su4_rz(params, b, 0)))
  IN  MatMul(f1, MatMul(CNOT, MatMul(f3, MatMul(CNOT, MatMul(f5, MatMul(CNOT, f7))))))

\* matrix b of what a builder returned for B rows of parameters
BuiltRow(m, b) == IF Len(m.shape) = 3 THEN MatrixRow(m, b) ELSE m

\* step h is an immediate, uninverted su4 handed rows of 15 angles
IsSu4(h) ==
  /\ IsImmediate(h)
  /\ ~h.call.inverse
  /\ h.call.base.name = "su4"
  /\ Dim(h.call.base.params) = 2
  /\ h.call.base.params.shape[2] = 15

\* C30: su4_matrix is kron(a,b) . CNOT . kron(rx,rz2) . CNOT . kron(c,d) .
\* CNOT . kron(I,rz1) with kron(a,b)[2i+k, 2j+l] = a[i,j] b[k,l]; when the
\* 15 angles are zero it is the cnot matrix, not the identity; and the
\* call applies that matrix.
Su4Composition ==
  \A i \in DOMAIN hist :
     IsSu4(hist[i]) =>
       LET h == hist[i]
           params == h.call.base.params
           m == BuiltMatrix(h.call)
       IN  /\ ~IsErr(m)
           /\ \A b \in 0..(params.shape[1] - 1) :
                /\ BuiltRow(m, b) = Su4InOrder(params, b)
                /\ (\A j \in 0..14 : Par(params, b, j) = 0) =>
                     /\ BuiltRow(m, b) = mat_dict("cnot")
                     /\ BuiltRow(m, b) # Eye(4)
           /\ h.outcome = "ok"
           /\ Post(i) = ApplyFn(h.call.method, h.pre, m, h.call.base.wires.v)

\* su4 with 15 zero angles on wires [1, 0] of the generic state: the matrix
\* built is cnot, and the state changed as cnot changes it
Su4CompositionWitness ==
  /\ Len(hist) = 1
  /\ IsSu4(hist[1])
  /\ \A j \in 0..14 : Par(hist[1].call.base.params, 0, j) = 0
  /\ hist[1].call.base.params.shape[1] = 1
  /\ BuiltMatrix(hist[1].call) = mat_dict("cnot")
  /\ hist[1].pre = GenericState
  /\ hist[1].outcome = "ok"
  /\ q_device.states # hist[1].pre
  /\ q_device.states = apply_unitary_bmm(hist[1].pre, mat_dict("cnot"), <<1, 0>>)
====
